---- MODULE Spec2Model ----
(***************************************************************************)
(* A model of the agent orchestration loops of appliedai-backend:          *)
(*   - OrchestratorAgent.query         (app/agents/orchestrator_agent.py)  *)
(*   - RAGAgent.query                  (app/agents/rag_agent.py)           *)
(*   - TextToSQLAgent.query            (app/agents/text_to_sql_agent.py)   *)
(*   - ResearchAgent.query             (app/agents/research_agent.py)      *)
(* The language model, the SQL executor, the retrieval index and the web   *)
(* search are collaborators: their answers are nondeterministic choices    *)
(* over small sets.                                                        *)
(***************************************************************************)
EXTENDS Integers, Sequences, FiniteSets, TLC

\* ---------------------------------------------------------------- bounds
\* Tool calls the language model may choose freely over one query() run.
MaxToolCalls == 2
\* Tool calls the language model may put in one assistant turn.
MaxCallsPerTurn == 2
\* Largest top_k of a retrieval call.
MaxTopK == 2

\* ------------------------------------------------------------- constants
\* A dict key that is absent / a Python None.
Absent == "<absent>"
None == "<none>"
\* tool_call.get("id", "unknown")
UnknownId == "unknown"
\* Ids the language model gives its tool calls, in order of emission.
CallIds == <<"call_1", "call_2", "call_3", "call_4", "call_5", "call_6", "call_7",
             "call_8", "call_9", "call_10", "call_11", "call_12", "call_13", "call_14">>

\* The text of a language-model response: some text, or the empty string.
LMTexts == {"lm_text", ""}

\* ------------------------------------------------------------- messages
HumanMessage(content) ==
    [role |-> "user", content |-> content, tool_calls |-> <<>>, tool_call_id |-> Absent]

AIMessage(content, calls) ==
    [role |-> "assistant", content |-> content, tool_calls |-> calls, tool_call_id |-> Absent]

ToolMessage(content, tool_call_id) ==
    [role |-> "tool", content |-> content, tool_calls |-> <<>>, tool_call_id |-> tool_call_id]

\* Variant: tool_call["id"] without the default.
RawToolCallId(tool_call) == tool_call.id

\* tool_call.get("id", "unknown")
ToolCallId(tool_call) == IF tool_call.id = Absent THEN UnknownId ELSE tool_call.id

\* Message contents: plain text, json.dumps of a str, json.dumps of
\* {"error": msg}, of {"results": [...], "count": n, ...} and of
\* {"llm_text": ..., "metadata": ...}.
Text(s) == [json |-> "text", value |-> s, count |-> 0]
JsonString(s) == [json |-> "string", value |-> s, count |-> 0]
JsonError(msg) == [json |-> "error", value |-> msg, count |-> 0]
JsonResults(n) == [json |-> "results", value |-> "", count |-> n]
JsonRecord == [json |-> "record", value |-> "", count |-> 1]

\* The tool calls of one assistant turn: the inputs `kinds` (name, args,
\* has_id) numbered from `emitted` on.
RECURSIVE NumberCalls(_, _)
NumberCalls(kinds, emitted) ==
    IF kinds = <<>> THEN <<>>
    ELSE <<[name |-> Head(kinds).name,
            args |-> Head(kinds).args,
            id |-> IF Head(kinds).has_id THEN CallIds[emitted + 1] ELSE Absent]>>
         \o NumberCalls(Tail(kinds), emitted + 1)

SeqsUpTo(S, n) == UNION {[1..k -> S] : k \in 1..n}

Min(a, b) == IF a < b THEN a ELSE b

\* =====================================================================
\* OrchestratorAgent (app/agents/orchestrator_agent.py)
\* =====================================================================
VARIABLES
    entry,               \* which query() is running
    pc,                  \* orchestrator: graph node about to run
    max_iterations,      \* query(max_iterations=...)
    rag_configured,      \* self.rag_agent is not None
    messages,            \* state["messages"]
    agents_called,       \* state["agents_called"]
    agent_responses,     \* state["agent_responses"]
    parallel_executions, \* self.parallel_executions
    tasks,               \* the execute_tool coroutines of the running gather
    completion_order,    \* indices of the tasks in the order they completed
    agent_awaits,        \* tool names whose capability agent's query() was awaited
    supervise_steps,     \* supervisor_node runs so far
    issued,              \* tool calls emitted so far
    final_answer,        \* state["final_answer"]
    outcome              \* what query() returned

\* RAGAgent (app/agents/rag_agent.py)
VARIABLES
    rag_pc,              \* where RAGAgent.query is
    rag_iteration,       \* iteration
    rag_messages,        \* messages
    rag_response,        \* response: the last answer of llm_with_tools
    rag_tool_index,      \* position of the for loop in response.tool_calls
    retrieved_chunks,    \* self.retrieved_chunks
    mode_used,           \* self.mode_used
    filters_applied,     \* self.filters_applied
    rag_steps,           \* steps
    rag_final_answer,    \* final_answer
    rag_select_calls,    \* llm_with_tools.ainvoke calls so far
    rag_synthesis_calls, \* llm.ainvoke(synthesis_prompt) calls so far
    rag_issued,          \* tool calls emitted so far
    rag_free,            \* of these, the freely chosen ones
    rag_result           \* the RAGResponse returned

ragVars == <<rag_pc, rag_iteration, rag_messages, rag_response, rag_tool_index,
             retrieved_chunks, mode_used, filters_applied, rag_steps,
             rag_final_answer, rag_select_calls, rag_synthesis_calls, rag_issued,
             rag_free, rag_result>>

\* TextToSQLAgent (app/agents/text_to_sql_agent.py)
VARIABLES
    sql_pc,              \* where TextToSQLAgent.query is
    allowed_operations,  \* db_record.allowed_operations
    max_sql_queries,     \* self.max_sql_queries
    sql_iteration,       \* iteration
    sql_messages,        \* messages
    sql_response,        \* response: the last answer of the chain
    sql_tool_index,      \* position of the for loop in response.tool_calls
    sql_count,           \* self.sql_count
    sql_queries,         \* self.sql_queries
    sql_results,         \* self.results
    sql_steps,           \* steps
    sql_final_answer,    \* final_answer
    sql_select_calls,    \* chain.ainvoke calls so far
    sql_synthesis_calls, \* llm.ainvoke(synthesis_prompt) calls so far
    sql_issued,          \* tool calls emitted so far
    sql_free,            \* of these, the freely chosen ones
    sql_result,          \* the TextToSQLResponse returned
    executor_calls,      \* statements passed to sqlite_service.execute_query
    db_statements        \* statements execute_query ran on the connection

sqlVars == <<sql_pc, allowed_operations, max_sql_queries, sql_iteration, sql_messages,
             sql_response, sql_tool_index, sql_count, sql_queries, sql_results,
             sql_steps, sql_final_answer, sql_select_calls, sql_synthesis_calls,
             sql_issued, sql_free, sql_result, executor_calls, db_statements>>

\* ResearchAgent (app/agents/research_agent.py)
VARIABLES
    res_pc,              \* where ResearchAgent.query is
    max_searches,        \* self.max_searches
    res_iteration,       \* iteration
    res_messages,        \* messages
    res_response,        \* response: the last answer of the chain
    res_tool_index,      \* position of the for loop in response.tool_calls
    search_count,        \* self.search_count
    reference_counter,   \* self.reference_counter
    all_references,      \* self.all_references
    res_steps,           \* steps
    res_final_answer,    \* final_answer
    res_select_calls,    \* chain.ainvoke calls so far
    res_synthesis_calls, \* llm_with_structure.ainvoke calls so far
    res_issued,          \* tool calls emitted so far
    res_free,            \* of these, the freely chosen ones
    res_result,          \* the ResearchResponse returned
    search_events,       \* searches issued and ended, in the order it happened
    cited_ids            \* cited_ids (empty for None)

resVars == <<res_pc, max_searches, res_iteration, res_messages, res_response,
             res_tool_index, search_count, reference_counter, all_references,
             res_steps, res_final_answer, res_select_calls, res_synthesis_calls,
             res_issued, res_free, res_result, search_events, cited_ids>>

\* DocumentChunkRepository (app/repositories/document_chunk_repository.py)
VARIABLES
    ret_pc,              \* "ready" before the repository call, "done" after it
    ret_order,           \* all chunk ids by ascending distance to the query vector
    ret_matches,         \* the chunk ids matching the query text, by descending rank
    ret_filter,          \* metadata_filter
    ret_top_k,           \* top_k
    ret_op,              \* the method called
    ret_weight,          \* semantic_weight, in tenths
    ret_seed,            \* seed_chunk.id
    ret_result           \* what the method returned, or that it raised

retVars == <<ret_pc, ret_order, ret_matches, ret_filter, ret_top_k, ret_op,
             ret_weight, ret_seed, ret_result>>

\* Two TextToSQLAgent.query coroutines of one tool_node on the one
\* self.sql_agent (app/agents/orchestrator_agent.py, asyncio.gather)
VARIABLES
    self_sql_count,        \* self.sql_count of the shared instance
    self_sql_queries,      \* self.sql_queries
    self_results,          \* self.results
    self_max_sql_queries,  \* self.max_sql_queries
    appended_by,           \* the run that appended each entry of self.sql_queries
    run_pc,                \* where each run's query() is suspended
    run_iteration,         \* each run's iteration
    run_steps,             \* each run's steps
    run_issued,            \* tool calls each run's model emitted so far
    run_result             \* the TextToSQLResponse each run returned

gatherVars == <<self_sql_count, self_sql_queries, self_results, self_max_sql_queries,
                appended_by, run_pc, run_iteration, run_steps, run_issued, run_result>>

agentVars == <<ragVars, sqlVars, resVars, retVars, gatherVars>>

orchVars == <<pc, max_iterations, rag_configured, messages, agents_called,
              agent_responses, parallel_executions, tasks, completion_order, agent_awaits,
              supervise_steps, issued, final_answer, outcome>>

Entries == {"orchestrator", "rag_agent", "sql_agent", "research_agent", "repository"}

\* The tool vocabulary bound to the supervisor model (_create_agent_tools).
OrchestratorTools ==
    {"call_sql_agent", "call_rag_agent", "call_research_agent", "get_current_datetime"}

\* Tool calls the supervisor model may emit: every tool of the vocabulary
\* with a well-formed argument map, a name outside the vocabulary, a call
\* whose argument map lacks "query", and a call emitted without an id.
OrchestratorCallInputs ==
    {[name |-> "call_sql_agent", args |-> {"query"}, has_id |-> TRUE],
     [name |-> "call_rag_agent", args |-> {"query"}, has_id |-> TRUE],
     [name |-> "call_research_agent", args |-> {"query"}, has_id |-> TRUE],
     [name |-> "get_current_datetime", args |-> {}, has_id |-> TRUE],
     [name |-> "call_weather_agent", args |-> {"query"}, has_id |-> TRUE],
     [name |-> "call_sql_agent", args |-> {}, has_id |-> TRUE],
     [name |-> "call_rag_agent", args |-> {"query"}, has_id |-> FALSE]}

\* What a capability agent's query() does when awaited.
AgentBehaviours == {"returns", "raises"}

\* Prior turns handed to query() as conversation_history.
Histories ==
    {<<>>,
     <<[role |-> "user", content |-> "earlier question"],
       [role |-> "assistant", content |-> "earlier answer"]>>}

\* query(), lines 66-74: the initial message list.
RECURSIVE HistoryMessages(_)
HistoryMessages(history) ==
    IF history = <<>> THEN <<>>
    ELSE (IF Head(history).role = "user"
             THEN <<HumanMessage(Text(Head(history).content))>>
          ELSE IF Head(history).role = "assistant"
             THEN <<AIMessage(Text(Head(history).content), <<>>)>>
          ELSE <<>>)
         \o HistoryMessages(Tail(history))

InitialMessages(history) == HistoryMessages(history) \o <<HumanMessage(Text("user_query"))>>

\* The dict the _execute_* methods return; `keys` are the keys it has and
\* specific_data the keys of its payload.
AgentResult(summary, steps, data) ==
    [keys |-> {"result_summary", "execution_time_ms", "steps", "specific_data"},
     result_summary |-> summary, steps |-> steps, specific_data |-> data,
     error |-> Absent]

\* _execute_sql_agent / _execute_research_agent: the agent's response, or
\* the error result of the except branch.
ExecuteSqlAgent(behaviour) ==
    IF behaviour = "returns"
    THEN AgentResult("sql_final_answer", "steps", {"sql_queries", "results"})
    ELSE AgentResult("SQL Agent error", "no_steps", {"error"})

ExecuteResearchAgent(behaviour) ==
    IF behaviour = "returns"
    THEN AgentResult("research_final_answer", "steps", {"references"})
    ELSE AgentResult("Research Agent error", "no_steps", {"error"})

\* Variant: self.rag_agent is used without the test of line 305.
ExecuteRagAgentUnchecked(configured, behaviour) ==
    IF behaviour = "returns"
    THEN AgentResult("rag_final_answer", "steps", {"chunks", "mode_used", "filters_applied"})
    ELSE AgentResult("RAG Agent error", "no_steps", {"error"})

\* _execute_rag_agent: the fixed result without a RAG agent, else as above.
ExecuteRagAgent(configured, behaviour) ==
    IF ~configured
    THEN AgentResult("No RAG data source available", "no_steps", {})
    ELSE IF behaviour = "returns"
    THEN AgentResult("rag_final_answer", "steps", {"chunks", "mode_used", "filters_applied"})
    ELSE AgentResult("RAG Agent error", "no_steps", {"error"})

ExecuteDatetimeTool ==
    AgentResult("Current Date and Time", "no_steps",
                {"utc", "local", "year", "month", "day", "weekday", "formatted"})

\* Variant: a name outside the vocabulary is answered like the datetime tool.
UnknownToolAsDatetime ==
    AgentResult("Current Date and Time", "no_steps",
                {"utc", "local", "year", "month", "day", "weekday", "formatted"})

\* {"error": f"Unknown tool: {tool_name}"}
UnknownToolResult ==
    [keys |-> {"error"}, result_summary |-> Absent, steps |-> Absent,
     specific_data |-> {}, error |-> "Unknown tool"]

\* The result slot of a call that raised (Python None).
NoneResult ==
    [keys |-> {}, result_summary |-> Absent, steps |-> Absent,
     specific_data |-> {}, error |-> Absent]

ToolResult(agent_name, result, tool_id, error) ==
    [agent_name |-> agent_name, result |-> result, tool_id |-> tool_id, error |-> error]

\* execute_tool, lines 135-161. tool_args["query"] raises KeyError inside
\* the try when the argument map lacks "query".
ExecuteTool(tool_call, configured, behaviour) ==
    LET tool_name == tool_call.name
        tool_id == ToolCallId(tool_call)
        raised == ToolResult(tool_name, NoneResult, tool_id, "Error executing tool")
    IN  IF tool_name = "call_sql_agent" THEN
            IF "query" \notin tool_call.args THEN raised
            ELSE ToolResult("sql_agent", ExecuteSqlAgent(behaviour), tool_id, None)
        ELSE IF tool_name = "call_rag_agent" THEN
            IF "query" \notin tool_call.args THEN raised
            ELSE ToolResult("rag_agent", ExecuteRagAgent(configured, behaviour), tool_id, None)
        ELSE IF tool_name = "call_research_agent" THEN
            IF "query" \notin tool_call.args THEN raised
            ELSE ToolResult("research_agent", ExecuteResearchAgent(behaviour), tool_id, None)
        ELSE IF tool_name = "get_current_datetime" THEN
            ToolResult("datetime_tool", ExecuteDatetimeTool, tool_id, None)
        ELSE ToolResult(tool_name, UnknownToolResult, tool_id, None)

\* Whether the capability agent is awaited at all by this call.
AwaitsAgent(tool_call, configured) ==
    /\ "query" \in tool_call.args
    /\ \/ tool_call.name \in {"call_sql_agent", "call_research_agent"}
       \/ tool_call.name = "call_rag_agent" /\ configured

\* tool_node, lines 170-183: the message of one gathered result.
ResultMessage(r) ==
    IF r.error # None
    THEN ToolMessage(JsonError(r.error), r.tool_id)
    ELSE ToolMessage(IF "result_summary" \in r.result.keys
                        THEN JsonString(r.result.result_summary)
                        ELSE JsonError(r.result.error),
                     r.tool_id)

\* tool_node, lines 168-183: one message per gathered result, in the order
\* of `results` (asyncio.gather returns results in the order of its arguments).
RECURSIVE ToolMessages(_)
ToolMessages(results) ==
    IF results = <<>> THEN <<>>
    ELSE <<ResultMessage(Head(results))>> \o ToolMessages(Tail(results))

\* tool_node, lines 169-177: results without error are recorded.
RECURSIVE RecordCalled(_, _)
RecordCalled(called, results) ==
    IF results = <<>> THEN called
    ELSE RecordCalled(IF Head(results).error # None THEN called
                      ELSE Append(called, Head(results).agent_name),
                      Tail(results))

\* Variant: the first response of an agent is kept.
RECURSIVE KeepFirstResponses(_, _)
KeepFirstResponses(responses, results) ==
    IF results = <<>> THEN responses
    ELSE LET r == Head(results)
         IN  KeepFirstResponses(
                 IF r.error # None \/ r.agent_name \in DOMAIN responses THEN responses
                 ELSE [n \in DOMAIN responses \cup {r.agent_name} |->
                          IF n = r.agent_name THEN r.result ELSE responses[n]],
                 Tail(results))

RECURSIVE RecordResponses(_, _)
RecordResponses(responses, results) ==
    IF results = <<>> THEN responses
    ELSE LET r == Head(results)
         IN  RecordResponses(
                 IF r.error # None THEN responses
                 ELSE [n \in DOMAIN responses \cup {r.agent_name} |->
                          IF n = r.agent_name THEN r.result ELSE responses[n]],
                 Tail(results))

\* tool_node, lines 165-166.
CountParallel(count, tool_calls) == IF Len(tool_calls) > 1 THEN count + 1 ELSE count

\* _determine_mode, lines 413-424.
DetermineMode(called, parallel_count) ==
    IF Len(called) = 0 THEN "none"
    ELSE IF Len(called) = 1 THEN "single"
    ELSE IF parallel_count > 0 THEN "parallel"
    ELSE "sequential"

\* query(), lines 90-98.
AgentDetails(responses) ==
    [n \in DOMAIN responses |->
        [agent_name |-> n,
         steps |-> IF "steps" \in responses[n].keys THEN responses[n].steps ELSE "no_steps",
         result_summary |-> IF "result_summary" \in responses[n].keys
                            THEN responses[n].result_summary ELSE "",
         specific_data |-> IF "specific_data" \in responses[n].keys
                           THEN responses[n].specific_data ELSE {}]]

\* final_node, lines 191-198: the content of the last AIMessage.
RECURSIVE LastAIContent(_)
LastAIContent(msgs) ==
    IF msgs = <<>> THEN "No answer generated."
    ELSE IF msgs[Len(msgs)].role = "assistant" THEN msgs[Len(msgs)].content.value
    ELSE LastAIContent(SubSeq(msgs, 1, Len(msgs) - 1))

NoOutcome == [returned |-> FALSE]

PendingTask == [status |-> "pending", result |-> ToolResult(Absent, NoneResult, Absent, None)]
DoneTask(result) == [status |-> "done", result |-> result]

\* Variant: the results in the order the coroutines completed.
ResultsAsCompleted == [i \in 1..Len(tasks) |-> tasks[completion_order[i]].result]

\* The results of the gather, in the order of its arguments.
GatheredResults == [i \in 1..Len(tasks) |-> tasks[i].result]

LastToolCalls == messages[Len(messages)].tool_calls

\* The orchestrator runs; the state of the agents' own loops is not touched.
OrchestratorRuns == entry = "orchestrator" /\ UNCHANGED <<entry, agentVars>>

InitOrchestrator ==
    /\ pc = "supervise"
    /\ max_iterations \in {1, 2}
    /\ rag_configured \in BOOLEAN
    /\ \E history \in Histories : messages = InitialMessages(history)
    /\ agents_called = <<>>
    /\ agent_responses = <<>>
    /\ parallel_executions = 0
    /\ tasks = <<>>
    /\ completion_order = <<>>
    /\ agent_awaits = <<>>
    /\ supervise_steps = 0
    /\ issued = 0
    /\ final_answer = ""
    /\ outcome = NoOutcome

\* supervisor_node + should_continue: the model answers with text only.
SuperviseFinal ==
    /\ OrchestratorRuns /\ pc = "supervise"
    /\ \E text \in LMTexts :
          messages' = Append(messages, AIMessage(Text(text), <<>>))
    /\ supervise_steps' = supervise_steps + 1
    /\ pc' = "final"
    /\ UNCHANGED <<max_iterations, rag_configured, agent_awaits, agents_called, agent_responses,
                   parallel_executions, tasks, completion_order, issued,
                   final_answer, outcome>>

\* supervisor_node + should_continue: the model requests tool calls; tool_node
\* starts one execute_tool coroutine per call (asyncio.gather).
SuperviseTools ==
    /\ OrchestratorRuns /\ pc = "supervise"
    /\ issued < MaxToolCalls
    /\ \E kinds \in SeqsUpTo(OrchestratorCallInputs,
                            Min(MaxCallsPerTurn, MaxToolCalls - issued)) :
          /\ messages' = Append(messages, AIMessage(Text(""), NumberCalls(kinds, issued)))
          /\ tasks' = [i \in 1..Len(kinds) |-> PendingTask]
          /\ issued' = issued + Len(kinds)
    /\ completion_order' = <<>>
    /\ supervise_steps' = supervise_steps + 1
    /\ pc' = "tools"
    /\ UNCHANGED <<max_iterations, rag_configured, agent_awaits, agents_called, agent_responses,
                   parallel_executions, final_answer, outcome>>

\* supervisor_node: llm_with_tools.ainvoke raises; nothing in the graph or in
\* query() catches it.
SuperviseRaises ==
    /\ OrchestratorRuns /\ pc = "supervise"
    /\ supervise_steps' = supervise_steps + 1
    /\ pc' = "raised"
    /\ UNCHANGED <<max_iterations, rag_configured, agent_awaits, messages, agents_called,
                   agent_responses, parallel_executions, tasks, completion_order,
                   issued, final_answer, outcome>>

\* One execute_tool coroutine of the gather runs to completion.
ExecuteToolCompletes ==
    /\ OrchestratorRuns /\ pc = "tools"
    /\ \E i \in 1..Len(tasks) :
          /\ tasks[i].status = "pending"
          /\ \E behaviour \in AgentBehaviours :
                /\ behaviour = "raises" => AwaitsAgent(LastToolCalls[i], rag_configured)
                /\ tasks' = [tasks EXCEPT ![i] =
                      DoneTask(ExecuteTool(LastToolCalls[i], rag_configured, behaviour))]
          /\ completion_order' = Append(completion_order, i)
          /\ agent_awaits' = IF AwaitsAgent(LastToolCalls[i], rag_configured)
                             THEN Append(agent_awaits, LastToolCalls[i].name)
                             ELSE agent_awaits
    /\ UNCHANGED <<pc, max_iterations, rag_configured, messages, agents_called,
                   agent_responses, parallel_executions, supervise_steps, issued,
                   final_answer, outcome>>

\* tool_node after the gather, lines 165-189, and the edge back to supervisor.
ToolNodeJoin ==
    /\ OrchestratorRuns /\ pc = "tools"
    /\ \A i \in 1..Len(tasks) : tasks[i].status = "done"
    /\ parallel_executions' = CountParallel(parallel_executions, LastToolCalls)
    /\ messages' = messages \o ToolMessages(GatheredResults)
    /\ agents_called' = RecordCalled(agents_called, GatheredResults)
    /\ agent_responses' = RecordResponses(agent_responses, GatheredResults)
    /\ pc' = "supervise"
    /\ UNCHANGED <<max_iterations, rag_configured, agent_awaits, tasks, completion_order,
                   supervise_steps, issued, final_answer, outcome>>

\* final_node, then query() lines 88-106.
FinalNode ==
    /\ OrchestratorRuns /\ pc = "final"
    /\ final_answer' = LastAIContent(messages)
    /\ outcome' = [returned |-> TRUE,
                   final_answer |-> LastAIContent(messages),
                   agents_called |-> agents_called,
                   mode_used |-> DetermineMode(agents_called, parallel_executions),
                   agent_details |-> AgentDetails(agent_responses)]
    /\ pc' = "done"
    /\ UNCHANGED <<max_iterations, rag_configured, agent_awaits, messages, agents_called,
                   agent_responses, parallel_executions, tasks, completion_order,
                   supervise_steps, issued>>

\* No orchestrator query() is running.
IdleOrchestrator ==
    /\ pc = "idle"
    /\ max_iterations = 1
    /\ rag_configured = TRUE
    /\ messages = <<>>
    /\ agents_called = <<>>
    /\ agent_responses = <<>>
    /\ parallel_executions = 0
    /\ tasks = <<>>
    /\ completion_order = <<>>
    /\ agent_awaits = <<>>
    /\ supervise_steps = 0
    /\ issued = 0
    /\ final_answer = ""
    /\ outcome = NoOutcome

\* =====================================================================
\* RAGAgent (app/agents/rag_agent.py)
\* =====================================================================
\* max_iterations = 3 (line 60)
RagMaxIterations == 3

\* Record lists the retrieval index may return to one search.
RecordLists == {<<>>, <<"rec_1">>, <<"rec_2", "rec_3">>}

NoSeed == "no_seed"

RetrieveArgs(mode, has_filter, seed) ==
    [mode |-> mode, metadata_filter |-> has_filter, seed |-> seed]

\* Tool calls the retrieval model may emit.
RagCallInputs ==
    {[name |-> "retrieve_records", args |-> RetrieveArgs("semantic", FALSE, NoSeed), has_id |-> TRUE],
     [name |-> "retrieve_records", args |-> RetrieveArgs("hybrid", TRUE, NoSeed), has_id |-> TRUE],
     [name |-> "retrieve_records", args |-> RetrieveArgs("neighbors", FALSE, "id"), has_id |-> TRUE],
     [name |-> "retrieve_records", args |-> RetrieveArgs("fuzzy", FALSE, NoSeed), has_id |-> TRUE],
     [name |-> "get_record", args |-> RetrieveArgs(Absent, TRUE, NoSeed), has_id |-> TRUE],
     [name |-> "get_record", args |-> RetrieveArgs(Absent, FALSE, NoSeed), has_id |-> TRUE],
     [name |-> "web_search", args |-> RetrieveArgs(Absent, FALSE, NoSeed), has_id |-> TRUE],
     [name |-> "retrieve_records", args |-> RetrieveArgs("keyword", FALSE, NoSeed), has_id |-> FALSE]}

\* What the collaborators of one tool call do: the embedding call or the
\* index raises, or the index returns `records` (for a lookup or a seed: its
\* first record, if any).
IndexAnswers == {[raises |-> TRUE, records |-> <<>>]}
                \cup {[raises |-> FALSE, records |-> r] : r \in RecordLists}

Observation(content, chunks, mode, filters) ==
    [content |-> content, retrieved_chunks |-> chunks, mode_used |-> mode,
     filters_applied |-> filters]

\* _execute_retrieve_records, lines 122-199: the observation and the instance
\* fields after the call.
ExecuteRetrieveRecords(args, index, chunks) ==
    LET mode == args.mode
        filters == args.metadata_filter
        error(msg) == Observation(JsonError(msg), chunks, mode, filters)
        found == Observation(JsonResults(Len(index.records)), index.records, mode, filters)
    IN  IF mode \in {"semantic", "keyword", "hybrid"} THEN
            IF index.raises THEN error("exception") ELSE found
        ELSE IF mode = "neighbors" THEN
            IF args.seed \notin {NoSeed, "id", "and"} THEN error("Invalid seed format")
            ELSE IF args.seed = NoSeed THEN error("Seed record not found")
            ELSE IF index.raises THEN error("exception")
            ELSE IF index.records = <<>> THEN error("Seed record not found")
            ELSE Observation(JsonResults(Len(index.records) - 1), Tail(index.records),
                             mode, filters)
        ELSE error("Invalid mode")

\* _execute_get_record, lines 201-231.
ExecuteGetRecord(args, index, chunks, mode, filters) ==
    LET error(msg) == Observation(JsonError(msg), chunks, mode, filters)
    IN  IF ~args.metadata_filter THEN error("metadata_filter is required")
        ELSE IF index.raises THEN error("exception")
        ELSE IF index.records = <<>> THEN error("Record not found")
        ELSE Observation(JsonRecord, <<Head(index.records)>>, "direct_lookup", filters)

\* query(), lines 77-82: the dispatch on the tool name.
RagExecute(tool_call, index, chunks, mode, filters) ==
    IF tool_call.name = "retrieve_records"
        THEN ExecuteRetrieveRecords(tool_call.args, index, chunks)
    ELSE IF tool_call.name = "get_record"
        THEN ExecuteGetRecord(tool_call.args, index, chunks, mode, filters)
    ELSE Observation(JsonError("Unknown tool"), chunks, mode, filters)

\* Whether the call reaches the embedding call or the index at all.
RagReachesIndex(tool_call) ==
    \/ /\ tool_call.name = "retrieve_records"
       /\ \/ tool_call.args.mode \in {"semantic", "keyword", "hybrid"}
          \/ tool_call.args.mode = "neighbors" /\ tool_call.args.seed \in {"id", "and"}
    \/ tool_call.name = "get_record" /\ tool_call.args.metadata_filter

\* Variant: one more iteration than max_iterations.
RagLoopContinuesOnceMore(iteration) == iteration <= RagMaxIterations

\* while iteration < max_iterations (line 62)
RagLoopContinues(iteration) == iteration < RagMaxIterations

\* After the for loop: break on retrieved chunks (lines 96-97), else the
\* loop condition.
RagAfterTools(chunks, iteration) ==
    IF chunks # <<>> THEN "finish"
    ELSE IF RagLoopContinues(iteration) THEN "select"
    ELSE "finish"

AgentStep(steps, action) ==
    Append(steps, [step_number |-> Len(steps) + 1, action |-> action])

NoResponse == [content |-> "", tool_calls |-> <<>>, made |-> FALSE]
Response(content, calls) == [content |-> content, tool_calls |-> calls, made |-> TRUE]

\* The language model repeats the last tool call of its previous turn.
RepeatedCall(response, emitted) ==
    LET last == response.tool_calls[Len(response.tool_calls)]
    IN  <<[name |-> last.name, args |-> last.args,
           id |-> IF last.id = Absent THEN Absent ELSE CallIds[emitted + 1]]>>

RagNoAnswer == "No relevant records found for your query"

InitRag ==
    /\ rag_pc = "select"
    /\ rag_iteration = 0
    /\ rag_messages = <<[role |-> "system", content |-> Text("system_prompt"),
                         tool_calls |-> <<>>, tool_call_id |-> Absent],
                        HumanMessage(Text("user_query"))>>
    /\ rag_response = NoResponse
    /\ rag_tool_index = 0
    /\ retrieved_chunks = <<>>
    /\ mode_used = ""
    /\ filters_applied = FALSE
    /\ rag_steps = <<>>
    /\ rag_final_answer = None
    /\ rag_select_calls = 0
    /\ rag_synthesis_calls = 0
    /\ rag_issued = 0
    /\ rag_free = 0
    /\ rag_result = NoOutcome

\* No RAGAgent.query is running.
IdleRag ==
    /\ rag_pc = "idle"
    /\ rag_iteration = 0
    /\ rag_messages = <<>>
    /\ rag_response = NoResponse
    /\ rag_tool_index = 0
    /\ retrieved_chunks = <<>>
    /\ mode_used = ""
    /\ filters_applied = FALSE
    /\ rag_steps = <<>>
    /\ rag_final_answer = None
    /\ rag_select_calls = 0
    /\ rag_synthesis_calls = 0
    /\ rag_issued = 0
    /\ rag_free = 0
    /\ rag_result = NoOutcome

RagRuns == entry = "rag_agent" /\ UNCHANGED <<entry, orchVars, sqlVars, resVars, retVars, gatherVars>>

\* Lines 62-69: the model answers with text only; the loop breaks.
RagSelectFinal ==
    /\ RagRuns /\ rag_pc = "select"
    /\ \E text \in LMTexts :
          /\ rag_response' = Response(text, <<>>)
          /\ rag_final_answer' = text
    /\ rag_iteration' = rag_iteration + 1
    /\ rag_select_calls' = rag_select_calls + 1
    /\ rag_pc' = "finish"
    /\ UNCHANGED <<rag_messages, rag_tool_index, retrieved_chunks, mode_used,
                   filters_applied, rag_steps, rag_synthesis_calls, rag_issued,
                   rag_free, rag_result>>

\* Lines 62-71: the model requests tool calls.
RagSelectTools ==
    /\ RagRuns /\ rag_pc = "select"
    /\ \E calls \in
          {NumberCalls(kinds, rag_issued) :
              kinds \in SeqsUpTo(RagCallInputs, Min(MaxCallsPerTurn, MaxToolCalls - rag_free))}
          \cup (IF rag_response.tool_calls # <<>>
                THEN {RepeatedCall(rag_response, rag_issued)} ELSE {}) :
          /\ rag_response' = Response("", calls)
          /\ rag_messages' = Append(rag_messages, AIMessage(Text(""), calls))
          /\ rag_issued' = rag_issued + Len(calls)
          /\ rag_free' = IF rag_response.tool_calls # <<>>
                            /\ calls = RepeatedCall(rag_response, rag_issued)
                         THEN rag_free ELSE rag_free + Len(calls)
    /\ rag_iteration' = rag_iteration + 1
    /\ rag_select_calls' = rag_select_calls + 1
    /\ rag_tool_index' = 1
    /\ rag_pc' = "tools"
    /\ UNCHANGED <<retrieved_chunks, mode_used, filters_applied, rag_steps,
                   rag_final_answer, rag_synthesis_calls, rag_result>>

\* llm_with_tools.ainvoke raises: query() has no handler.
RagSelectRaises ==
    /\ RagRuns /\ rag_pc = "select"
    /\ rag_iteration' = rag_iteration + 1
    /\ rag_select_calls' = rag_select_calls + 1
    /\ rag_pc' = "raised"
    /\ UNCHANGED <<rag_messages, rag_response, rag_tool_index, retrieved_chunks,
                   mode_used, filters_applied, rag_steps, rag_final_answer,
                   rag_synthesis_calls, rag_issued, rag_free, rag_result>>

\* Lines 73-97: one pass of the for loop over response.tool_calls; after the
\* last call, the break on retrieved chunks and the loop condition.
RagToolCall ==
    /\ RagRuns /\ rag_pc = "tools"
    /\ LET tool_call == rag_response.tool_calls[rag_tool_index] IN
       \E index \in IndexAnswers :
          /\ ~RagReachesIndex(tool_call) => index = [raises |-> FALSE, records |-> <<>>]
          /\ LET obs == RagExecute(tool_call, index, retrieved_chunks, mode_used,
                                   filters_applied)
             IN  /\ retrieved_chunks' = obs.retrieved_chunks
                 /\ mode_used' = obs.mode_used
                 /\ filters_applied' = obs.filters_applied
                 /\ rag_messages' = Append(rag_messages,
                                           ToolMessage(obs.content, ToolCallId(tool_call)))
                 /\ rag_steps' = AgentStep(rag_steps, tool_call.name)
                 /\ IF rag_tool_index < Len(rag_response.tool_calls)
                    THEN rag_tool_index' = rag_tool_index + 1 /\ rag_pc' = "tools"
                    ELSE /\ rag_tool_index' = 0
                         /\ rag_pc' = RagAfterTools(obs.retrieved_chunks, rag_iteration)
    /\ UNCHANGED <<rag_iteration, rag_response, rag_final_answer, rag_select_calls,
                   rag_synthesis_calls, rag_issued, rag_free, rag_result>>

RagResponse(answer) ==
    [returned |-> TRUE, final_answer |-> answer, chunks |-> retrieved_chunks,
     mode_used |-> mode_used, filters_applied |-> filters_applied, steps |-> rag_steps]

\* Lines 99-120: synthesis over the retrieved chunks, or the literal answer.
RagFinish ==
    /\ RagRuns /\ rag_pc = "finish"
    /\ IF retrieved_chunks # <<>>
       THEN /\ rag_synthesis_calls' = rag_synthesis_calls + 1
            /\ \E text \in LMTexts :
                  /\ rag_final_answer' = text
                  /\ rag_result' = RagResponse(text)
       ELSE /\ rag_synthesis_calls' = rag_synthesis_calls
            /\ rag_final_answer' = RagNoAnswer
            /\ rag_result' = RagResponse(RagNoAnswer)
    /\ rag_pc' = "done"
    /\ UNCHANGED <<rag_iteration, rag_messages, rag_response, rag_tool_index,
                   retrieved_chunks, mode_used, filters_applied, rag_steps,
                   rag_select_calls, rag_issued, rag_free>>

\* llm.ainvoke(synthesis_prompt) raises: query() has no handler.
RagSynthesisRaises ==
    /\ RagRuns /\ rag_pc = "finish"
    /\ retrieved_chunks # <<>>
    /\ rag_synthesis_calls' = rag_synthesis_calls + 1
    /\ rag_pc' = "raised"
    /\ UNCHANGED <<rag_iteration, rag_messages, rag_response, rag_tool_index,
                   retrieved_chunks, mode_used, filters_applied, rag_steps,
                   rag_final_answer, rag_select_calls, rag_issued, rag_free,
                   rag_result>>


\* =====================================================================
\* TextToSQLAgent (app/agents/text_to_sql_agent.py)
\* =====================================================================
\* max_iterations = 5 (line 83)
SqlMaxIterations == 5

\* A SQL statement: its leading keyword after strip().upper(), and whether
\* its text holds an always-blocked keyword, a ';' before its last
\* character, a comment marker.
Statement(leading, blocked, multiple, comment) ==
    [leading |-> leading, blocked |-> blocked, multiple |-> multiple, comment |-> comment]

SelectStatement == Statement("SELECT", FALSE, FALSE, FALSE)
DeleteStatement == Statement("DELETE", FALSE, FALSE, FALSE)
DropStatement == Statement("DROP", TRUE, FALSE, FALSE)
\* SELECT statements that hold a blocked keyword ("SELECT * FROM created"),
\* a second statement ("SELECT 1; SELECT 2"), a comment marker.
SelectWithKeyword == Statement("SELECT", TRUE, FALSE, FALSE)
SelectTwice == Statement("SELECT", FALSE, TRUE, FALSE)
SelectWithComment == Statement("SELECT", FALSE, FALSE, TRUE)
NoStatement == Statement(Absent, FALSE, FALSE, FALSE)

\* _detect_operation, lines 41-54.
DetectOperation(sql) ==
    IF sql.leading = "SELECT" THEN "SELECT"
    ELSE IF sql.leading = "INSERT" THEN "INSERT"
    ELSE IF sql.leading = "UPDATE" THEN "UPDATE"
    ELSE IF sql.leading = "DELETE" THEN "DELETE"
    ELSE "UNKNOWN"

\* Variant: the query type and the allow-list only.
IsSafeQueryByTypeOnly(sql, allowed) ==
    /\ sql.leading \in {"SELECT", "INSERT", "UPDATE", "DELETE"}
    /\ sql.leading \in allowed

\* SQLiteService._is_safe_query.
IsSafeQuery(sql, allowed) ==
    /\ sql.leading \in {"SELECT", "INSERT", "UPDATE", "DELETE"}
    /\ sql.leading \in allowed
    /\ ~sql.blocked
    /\ ~sql.multiple
    /\ ~sql.comment

SqlArgs(keys, sql) == [keys |-> keys, sql |-> sql]

\* Tool calls the SQL model may emit.
SqlCallInputs ==
    {[name |-> "execute_sql_query", args |-> SqlArgs({"sql"}, SelectStatement), has_id |-> TRUE],
     [name |-> "execute_sql_query", args |-> SqlArgs({"sql"}, DeleteStatement), has_id |-> TRUE],
     [name |-> "execute_sql_query", args |-> SqlArgs({"sql"}, DropStatement), has_id |-> TRUE],
     [name |-> "execute_sql_query", args |-> SqlArgs({"sql"}, SelectWithKeyword), has_id |-> TRUE],
     [name |-> "execute_sql_query", args |-> SqlArgs({"sql"}, SelectTwice), has_id |-> TRUE],
     [name |-> "execute_sql_query", args |-> SqlArgs({"sql"}, SelectWithComment), has_id |-> TRUE],
     [name |-> "execute_sql_query", args |-> SqlArgs({}, NoStatement), has_id |-> TRUE],
     [name |-> "sql_db_query_checker", args |-> SqlArgs({"query"}, NoStatement), has_id |-> TRUE],
     [name |-> "web_search", args |-> SqlArgs({"query"}, NoStatement), has_id |-> TRUE],
     [name |-> "execute_sql_query", args |-> SqlArgs({"sql"}, SelectStatement), has_id |-> FALSE]}

\* What the collaborator of one tool call (SQLiteService.execute_query, the
\* query checker) does.
ExecutorAnswers == {"returns", "raises"}

\* SQLiteService.execute_query, lines 253-281: an unsafe statement raises
\* before the connection is opened.
ExecuteQueryRaises(sql, allowed, executor) == ~IsSafeQuery(sql, allowed) \/ executor = "raises"

\* SQLiteService.execute_query, lines 277-287: the statement reaches
\* cursor.execute only when _is_safe_query accepts it.
RunOnConnection(sql, allowed) == IF IsSafeQuery(sql, allowed) THEN <<sql>> ELSE <<>>

\* Variant: every operation passes the permission check.
OperationAlwaysAllowed(operation, allowed) == TRUE

\* if operation not in db_record.allowed_operations (line 122), negated.
OperationAllowed(operation, allowed) == operation \in allowed

\* The observation of one tool call and the instance fields after it;
\* `passed` is the statement handed to execute_query, if any, and `run` the
\* statement execute_query ran, if any.
SqlObservation(content, count, queries, res, raised, passed, run) ==
    [content |-> content, sql_count |-> count, sql_queries |-> queries,
     results |-> res, raised |-> raised, passed |-> passed, run |-> run]

\* query(), lines 115-144: the execute_sql_query branch.
ExecuteSqlQuery(args, allowed, limit, executor, count, queries, res) ==
    IF "sql" \notin args.keys
        THEN SqlObservation(JsonError("KeyError"), count, queries, res, TRUE, <<>>, <<>>)
    ELSE IF ~OperationAllowed(DetectOperation(args.sql), allowed)
        THEN SqlObservation(JsonError("operation not allowed"), count, queries, res, FALSE,
                            <<>>, <<>>)
    ELSE IF count >= limit
        THEN SqlObservation(JsonError("Maximum SQL query limit reached"), count, queries, res,
                            FALSE, <<>>, <<>>)
    ELSE IF ExecuteQueryRaises(args.sql, allowed, executor)
        THEN SqlObservation(JsonError("exception"), count, queries, res, FALSE,
                            <<args.sql>>, RunOnConnection(args.sql, allowed))
    ELSE SqlObservation(JsonResults(1), count + 1, Append(queries, args.sql),
                        Append(res, "rows"), FALSE,
                        <<args.sql>>, RunOnConnection(args.sql, allowed))

\* query(), lines 104-147: the dispatch on the tool name. The query checker
\* is invoked outside any try.
SqlExecute(tool_call, allowed, limit, executor, count, queries, res) ==
    IF tool_call.name = "sql_db_query_checker" THEN
        IF executor = "raises"
        THEN SqlObservation(JsonError("exception"), count, queries, res, TRUE, <<>>, <<>>)
        ELSE SqlObservation(JsonString("checked query"), count, queries, res, FALSE,
                            <<>>, <<>>)
    ELSE IF tool_call.name = "execute_sql_query" THEN
        ExecuteSqlQuery(tool_call.args, allowed, limit, executor, count, queries, res)
    ELSE SqlObservation(JsonError("Unknown tool"), count, queries, res, FALSE, <<>>, <<>>)

\* Whether the call reaches the executor or the checker at all.
SqlReachesExecutor(tool_call, allowed, limit, count) ==
    \/ tool_call.name = "sql_db_query_checker"
    \/ /\ tool_call.name = "execute_sql_query"
       /\ "sql" \in tool_call.args.keys
       /\ OperationAllowed(DetectOperation(tool_call.args.sql), allowed)
       /\ count < limit

\* Variant: one more iteration than the ceiling.
SqlLoopContinuesOnceMore(iteration) == iteration <= SqlMaxIterations

\* while iteration < max_iterations (line 89)
SqlLoopContinues(iteration) == iteration < SqlMaxIterations

\* if not final_answer: None and "" are falsy
Falsy(answer) == answer \in {None, ""}

SqlNoAnswer == "Could not generate answer within iteration limit"

InitSql ==
    /\ sql_pc = "select"
    /\ \/ allowed_operations = {"SELECT"} /\ max_sql_queries \in {1, 3}
       \/ allowed_operations = {"SELECT", "DELETE"} /\ max_sql_queries = 1
    /\ sql_iteration = 0
    /\ sql_messages = <<HumanMessage(Text("user_query"))>>
    /\ sql_response = NoResponse
    /\ sql_tool_index = 0
    /\ sql_count = 0
    /\ sql_queries = <<>>
    /\ sql_results = <<>>
    /\ sql_steps = <<>>
    /\ sql_final_answer = None
    /\ sql_select_calls = 0
    /\ sql_synthesis_calls = 0
    /\ sql_issued = 0
    /\ sql_free = 0
    /\ sql_result = NoOutcome
    /\ executor_calls = <<>>
    /\ db_statements = <<>>

\* No TextToSQLAgent.query is running.
IdleSql ==
    /\ sql_pc = "idle"
    /\ allowed_operations = {"SELECT"}
    /\ max_sql_queries = 3
    /\ sql_iteration = 0
    /\ sql_messages = <<>>
    /\ sql_response = NoResponse
    /\ sql_tool_index = 0
    /\ sql_count = 0
    /\ sql_queries = <<>>
    /\ sql_results = <<>>
    /\ sql_steps = <<>>
    /\ sql_final_answer = None
    /\ sql_select_calls = 0
    /\ sql_synthesis_calls = 0
    /\ sql_issued = 0
    /\ sql_free = 0
    /\ sql_result = NoOutcome
    /\ executor_calls = <<>>
    /\ db_statements = <<>>

SqlRuns == entry = "sql_agent" /\ UNCHANGED <<entry, orchVars, ragVars, resVars, retVars, gatherVars>>

\* Lines 89-98: the model answers with text only; the loop breaks.
SqlSelectFinal ==
    /\ SqlRuns /\ sql_pc = "select"
    /\ \E text \in LMTexts :
          /\ sql_response' = Response(text, <<>>)
          /\ sql_final_answer' = text
    /\ sql_iteration' = sql_iteration + 1
    /\ sql_select_calls' = sql_select_calls + 1
    /\ sql_pc' = "finish"
    /\ UNCHANGED <<executor_calls, db_statements, allowed_operations, max_sql_queries, sql_messages, sql_tool_index,
                   sql_count, sql_queries, sql_results, sql_steps, sql_synthesis_calls,
                   sql_issued, sql_free, sql_result>>

\* Lines 89-101: the model requests tool calls.
SqlSelectTools ==
    /\ SqlRuns /\ sql_pc = "select"
    /\ \E calls \in
          {NumberCalls(kinds, sql_issued) :
              kinds \in SeqsUpTo(SqlCallInputs, Min(MaxCallsPerTurn, MaxToolCalls - sql_free))}
          \cup (IF sql_response.tool_calls # <<>>
                THEN {RepeatedCall(sql_response, sql_issued)} ELSE {}) :
          /\ sql_response' = Response("", calls)
          /\ sql_messages' = Append(sql_messages, AIMessage(Text(""), calls))
          /\ sql_issued' = sql_issued + Len(calls)
          /\ sql_free' = IF sql_response.tool_calls # <<>>
                            /\ calls = RepeatedCall(sql_response, sql_issued)
                         THEN sql_free ELSE sql_free + Len(calls)
    /\ sql_iteration' = sql_iteration + 1
    /\ sql_select_calls' = sql_select_calls + 1
    /\ sql_tool_index' = 1
    /\ sql_pc' = "tools"
    /\ UNCHANGED <<executor_calls, db_statements, allowed_operations, max_sql_queries, sql_count, sql_queries,
                   sql_results, sql_steps, sql_final_answer, sql_synthesis_calls,
                   sql_result>>

\* chain.ainvoke raises: query() has no handler.
SqlSelectRaises ==
    /\ SqlRuns /\ sql_pc = "select"
    /\ sql_iteration' = sql_iteration + 1
    /\ sql_select_calls' = sql_select_calls + 1
    /\ sql_pc' = "raised"
    /\ UNCHANGED <<executor_calls, db_statements, allowed_operations, max_sql_queries, sql_messages, sql_response,
                   sql_tool_index, sql_count, sql_queries, sql_results, sql_steps,
                   sql_final_answer, sql_synthesis_calls, sql_issued, sql_free,
                   sql_result>>

\* Lines 104-161: one pass of the for loop over response.tool_calls; after
\* the last call, the loop condition.
SqlToolCall ==
    /\ SqlRuns /\ sql_pc = "tools"
    /\ LET tool_call == sql_response.tool_calls[sql_tool_index] IN
       \E executor \in ExecutorAnswers :
          /\ ~SqlReachesExecutor(tool_call, allowed_operations, max_sql_queries, sql_count)
                => executor = "returns"
          /\ LET obs == SqlExecute(tool_call, allowed_operations, max_sql_queries,
                                   executor, sql_count, sql_queries, sql_results)
             IN  IF obs.raised
                 THEN /\ sql_pc' = "raised"
                      /\ UNCHANGED <<sql_messages, sql_tool_index, sql_count, sql_queries,
                                     sql_results, sql_steps, executor_calls, db_statements>>
                 ELSE /\ sql_count' = obs.sql_count
                      /\ executor_calls' = executor_calls \o obs.passed
                      /\ db_statements' = db_statements \o obs.run
                      /\ sql_queries' = obs.sql_queries
                      /\ sql_results' = obs.results
                      /\ sql_messages' = Append(sql_messages,
                                                ToolMessage(obs.content, ToolCallId(tool_call)))
                      /\ sql_steps' = AgentStep(sql_steps, tool_call.name)
                      /\ IF sql_tool_index < Len(sql_response.tool_calls)
                         THEN sql_tool_index' = sql_tool_index + 1 /\ sql_pc' = "tools"
                         ELSE /\ sql_tool_index' = 0
                              /\ sql_pc' = IF SqlLoopContinues(sql_iteration)
                                           THEN "select" ELSE "finish"
    /\ UNCHANGED <<allowed_operations, max_sql_queries, sql_iteration, sql_response,
                   sql_final_answer, sql_select_calls, sql_synthesis_calls, sql_issued,
                   sql_free, sql_result>>

SqlResponse(answer) ==
    [returned |-> TRUE, final_answer |-> answer, sql_queries |-> sql_queries,
     results |-> sql_results, steps |-> sql_steps]

\* Lines 163-186: synthesis when queries ran and no answer was given, the
\* fallback when there is still no answer.
SqlFinish ==
    /\ SqlRuns /\ sql_pc = "finish"
    /\ \E text \in LMTexts :
          LET synthesised == sql_count > 0 /\ Falsy(sql_final_answer)
              answer == IF synthesised THEN text ELSE sql_final_answer
              final == IF Falsy(answer) THEN SqlNoAnswer ELSE answer
          IN  /\ ~synthesised => text = ""
              /\ sql_synthesis_calls' = sql_synthesis_calls + (IF synthesised THEN 1 ELSE 0)
              /\ sql_final_answer' = final
              /\ sql_result' = SqlResponse(final)
    /\ sql_pc' = "done"
    /\ UNCHANGED <<executor_calls, db_statements, allowed_operations, max_sql_queries, sql_iteration, sql_messages,
                   sql_response, sql_tool_index, sql_count, sql_queries, sql_results,
                   sql_steps, sql_select_calls, sql_issued, sql_free>>

\* llm.ainvoke(synthesis_prompt) raises: query() has no handler.
SqlSynthesisRaises ==
    /\ SqlRuns /\ sql_pc = "finish"
    /\ sql_count > 0 /\ Falsy(sql_final_answer)
    /\ sql_synthesis_calls' = sql_synthesis_calls + 1
    /\ sql_pc' = "raised"
    /\ UNCHANGED <<executor_calls, db_statements, allowed_operations, max_sql_queries, sql_iteration, sql_messages,
                   sql_response, sql_tool_index, sql_count, sql_queries, sql_results,
                   sql_steps, sql_final_answer, sql_select_calls, sql_issued, sql_free,
                   sql_result>>

\* =====================================================================
\* ResearchAgent (app/agents/research_agent.py)
\* =====================================================================
\* max_iterations = 10 (line 64)
ResMaxIterations == 10

\* What `results = self.search_service.search(query, num_results=5)` binds:
\* GoogleSearchService.search is an async def and the call is not awaited,
\* so `results` is a coroutine object, whatever the search would return.
SearchValues == {[coroutine |-> TRUE, items |-> <<>>]}

ResArgs(keys) == [keys |-> keys]

\* Tool calls the research model may emit.
ResCallInputs ==
    {[name |-> "web_search", args |-> ResArgs({"query"}), has_id |-> TRUE],
     [name |-> "web_search", args |-> ResArgs({}), has_id |-> TRUE],
     [name |-> "execute_sql_query", args |-> ResArgs({"sql"}), has_id |-> TRUE],
     [name |-> "web_search", args |-> ResArgs({"query"}), has_id |-> FALSE]}

\* The observation of one tool call and the instance fields after it;
\* `events` are the search calls issued (line 91) and ended (the try block
\* left, lines 114-116) while the call was handled.
ResObservation(content, count, counter, refs, raised, events) ==
    [content |-> content, search_count |-> count, reference_counter |-> counter,
     all_references |-> refs, raised |-> raised, events |-> events]

Reference(n, item) == [reference_id |-> n, url |-> item]

\* Lines 94-103: one reference per result, numbered by reference_counter.
RECURSIVE AddReferences(_, _, _)
AddReferences(refs, counter, items) ==
    IF items = <<>> THEN refs
    ELSE AddReferences(Append(refs, Reference(counter + 1, Head(items))),
                       counter + 1, Tail(items))

\* query(), lines 83-119. search_count is incremented before the for loop
\* iterates `results`; iterating a coroutine raises TypeError, caught at 115.
ResExecute(tool_call, limit, value, count, counter, refs) ==
    IF tool_call.name = "web_search" THEN
        IF "query" \notin tool_call.args.keys
            THEN ResObservation(JsonError("KeyError"), count, counter, refs, TRUE, <<>>)
        ELSE IF count >= limit
            THEN ResObservation(JsonError("Maximum search limit reached"), count, counter,
                                refs, FALSE, <<>>)
        ELSE IF value.coroutine
            THEN ResObservation(JsonError("exception"), count + 1, counter, refs, FALSE,
                                <<"issued", "failed">>)
        ELSE ResObservation(JsonResults(Len(value.items)), count + 1,
                            counter + Len(value.items),
                            AddReferences(refs, counter, value.items), FALSE,
                            <<"issued", "completed">>)
    ELSE ResObservation(JsonError("Unknown tool"), count, counter, refs, FALSE, <<>>)

\* while iteration < max_iterations (line 69)
ResLoopContinues(iteration) == iteration < ResMaxIterations

\* Reference ids the synthesis model may cite.
CitedIds == {<<>>, <<1>>, <<7>>}

\* Variant of line 166: a cited id that names no gathered reference is
\* returned as a reference of its own.
RECURSIVE CitedAsGiven(_, _)
CitedAsGiven(cited, refs) ==
    IF cited = <<>> THEN <<>>
    ELSE <<[reference_id |-> Head(cited), url |-> "cited"]>> \o CitedAsGiven(Tail(cited), refs)

\* Lines 164-169: the cited references that exist, or the first 10
\* references with distinct urls.
RECURSIVE CitedReferences(_, _)
CitedReferences(cited, refs) ==
    IF cited = <<>> THEN <<>>
    ELSE (IF \E i \in 1..Len(refs) : refs[i].reference_id = Head(cited)
          THEN <<refs[CHOOSE i \in 1..Len(refs) :
                        /\ refs[i].reference_id = Head(cited)
                        /\ \A j \in (i + 1)..Len(refs) : refs[j].reference_id # Head(cited)]>>
          ELSE <<>>)
         \o CitedReferences(Tail(cited), refs)

RECURSIVE UniqueByUrl(_, _)
UniqueByUrl(refs, seen) ==
    IF refs = <<>> THEN <<>>
    ELSE IF Head(refs).url \in seen THEN UniqueByUrl(Tail(refs), seen)
    ELSE <<[reference_id |->
               (LET later == {i \in 1..Len(refs) : refs[i].url = Head(refs).url}
                IN  refs[CHOOSE i \in later : \A j \in later : j <= i].reference_id),
            url |-> Head(refs).url]>>
         \o UniqueByUrl(Tail(refs), seen \cup {Head(refs).url})

ReturnedReferences(cited, refs) ==
    IF cited # <<>> THEN CitedReferences(cited, refs)
    ELSE SubSeq(UniqueByUrl(refs, {}), 1, Min(10, Len(UniqueByUrl(refs, {}))))

ResNoAnswer == "Could not generate answer within iteration limit"

InitRes ==
    /\ res_pc = "select"
    /\ max_searches \in {1, 3}
    /\ res_iteration = 0
    /\ res_messages = <<HumanMessage(Text("user_query"))>>
    /\ res_response = NoResponse
    /\ res_tool_index = 0
    /\ search_count = 0
    /\ reference_counter = 0
    /\ all_references = <<>>
    /\ res_steps = <<>>
    /\ res_final_answer = None
    /\ res_select_calls = 0
    /\ res_synthesis_calls = 0
    /\ res_issued = 0
    /\ res_free = 0
    /\ res_result = NoOutcome
    /\ search_events = <<>>
    /\ cited_ids = <<>>

\* No ResearchAgent.query is running.
IdleRes ==
    /\ res_pc = "idle"
    /\ max_searches = 3
    /\ res_iteration = 0
    /\ res_messages = <<>>
    /\ res_response = NoResponse
    /\ res_tool_index = 0
    /\ search_count = 0
    /\ reference_counter = 0
    /\ all_references = <<>>
    /\ res_steps = <<>>
    /\ res_final_answer = None
    /\ res_select_calls = 0
    /\ res_synthesis_calls = 0
    /\ res_issued = 0
    /\ res_free = 0
    /\ res_result = NoOutcome
    /\ search_events = <<>>
    /\ cited_ids = <<>>

ResRuns == entry = "research_agent" /\ UNCHANGED <<entry, orchVars, ragVars, sqlVars, retVars, gatherVars>>

\* Lines 69-76: the model answers with text only; the loop breaks.
ResSelectFinal ==
    /\ ResRuns /\ res_pc = "select"
    /\ \E text \in LMTexts :
          /\ res_response' = Response(text, <<>>)
          /\ res_final_answer' = text
    /\ res_iteration' = res_iteration + 1
    /\ res_select_calls' = res_select_calls + 1
    /\ res_pc' = "finish"
    /\ UNCHANGED <<cited_ids, search_events, max_searches, res_messages, res_tool_index, search_count,
                   reference_counter, all_references, res_steps, res_synthesis_calls,
                   res_issued, res_free, res_result>>

\* Lines 69-78: the model requests tool calls.
ResSelectTools ==
    /\ ResRuns /\ res_pc = "select"
    /\ \E calls \in
          {NumberCalls(kinds, res_issued) :
              kinds \in SeqsUpTo(ResCallInputs, Min(MaxCallsPerTurn, MaxToolCalls - res_free))}
          \cup (IF res_response.tool_calls # <<>>
                THEN {RepeatedCall(res_response, res_issued)} ELSE {}) :
          /\ res_response' = Response("", calls)
          /\ res_messages' = Append(res_messages, AIMessage(Text(""), calls))
          /\ res_issued' = res_issued + Len(calls)
          /\ res_free' = IF res_response.tool_calls # <<>>
                            /\ calls = RepeatedCall(res_response, res_issued)
                         THEN res_free ELSE res_free + Len(calls)
    /\ res_iteration' = res_iteration + 1
    /\ res_select_calls' = res_select_calls + 1
    /\ res_tool_index' = 1
    /\ res_pc' = "tools"
    /\ UNCHANGED <<cited_ids, search_events, max_searches, search_count, reference_counter, all_references,
                   res_steps, res_final_answer, res_synthesis_calls, res_result>>

\* chain.ainvoke raises: query() has no handler.
ResSelectRaises ==
    /\ ResRuns /\ res_pc = "select"
    /\ res_iteration' = res_iteration + 1
    /\ res_select_calls' = res_select_calls + 1
    /\ res_pc' = "raised"
    /\ UNCHANGED <<cited_ids, search_events, max_searches, res_messages, res_response, res_tool_index,
                   search_count, reference_counter, all_references, res_steps,
                   res_final_answer, res_synthesis_calls, res_issued, res_free,
                   res_result>>

\* Lines 80-131: one pass of the for loop over response.tool_calls; after
\* the last call, the loop condition.
ResToolCall ==
    /\ ResRuns /\ res_pc = "tools"
    /\ LET tool_call == res_response.tool_calls[res_tool_index] IN
       \E value \in SearchValues :
          LET obs == ResExecute(tool_call, max_searches, value, search_count,
                                reference_counter, all_references)
          IN  IF obs.raised
              THEN /\ res_pc' = "raised"
                   /\ UNCHANGED <<res_messages, res_tool_index, search_count,
                                  reference_counter, all_references, res_steps,
                                  search_events>>
              ELSE /\ search_count' = obs.search_count
                   /\ search_events' = search_events \o obs.events
                   /\ reference_counter' = obs.reference_counter
                   /\ all_references' = obs.all_references
                   /\ res_messages' = Append(res_messages,
                                             ToolMessage(obs.content, ToolCallId(tool_call)))
                   /\ res_steps' = AgentStep(res_steps, tool_call.name)
                   /\ IF res_tool_index < Len(res_response.tool_calls)
                      THEN res_tool_index' = res_tool_index + 1 /\ res_pc' = "tools"
                      ELSE /\ res_tool_index' = 0
                           /\ res_pc' = IF ResLoopContinues(res_iteration)
                                        THEN "select" ELSE "finish"
    /\ UNCHANGED <<max_searches, res_iteration, res_response, res_final_answer,
                   res_select_calls, res_synthesis_calls, res_issued, res_free,
                   res_result, cited_ids>>

ResResponse(answer, references) ==
    [returned |-> TRUE, final_answer |-> answer, references |-> references,
     steps |-> res_steps]

\* Lines 133-177: the structured synthesis call when a search was counted,
\* the fallback answer, the references returned.
ResFinish ==
    /\ ResRuns /\ res_pc = "finish"
    /\ \E text \in LMTexts, cited \in CitedIds :
          LET synthesised == search_count > 0
              answer == IF synthesised /\ Falsy(res_final_answer)
                        THEN text ELSE res_final_answer
              final == IF Falsy(answer) THEN ResNoAnswer ELSE answer
          IN  /\ ~synthesised => (text = "" /\ cited = <<>>)
              /\ res_synthesis_calls' = res_synthesis_calls + (IF synthesised THEN 1 ELSE 0)
              /\ res_final_answer' = final
              /\ cited_ids' = cited
              /\ res_result' = ResResponse(final, ReturnedReferences(cited, all_references))
    /\ res_pc' = "done"
    /\ UNCHANGED <<search_events, max_searches, res_iteration, res_messages, res_response,
                   res_tool_index, search_count, reference_counter, all_references,
                   res_steps, res_select_calls, res_issued, res_free>>

\* llm_with_structure.ainvoke raises: query() has no handler.
ResSynthesisRaises ==
    /\ ResRuns /\ res_pc = "finish"
    /\ search_count > 0
    /\ res_synthesis_calls' = res_synthesis_calls + 1
    /\ res_pc' = "raised"
    /\ UNCHANGED <<cited_ids, search_events, max_searches, res_iteration, res_messages, res_response,
                   res_tool_index, search_count, reference_counter, all_references,
                   res_steps, res_final_answer, res_select_calls, res_issued, res_free,
                   res_result>>

\* =====================================================================
\* DocumentChunkRepository (app/repositories/document_chunk_repository.py)
\* =====================================================================
\* The value of a metadata field or of a condition: an integer (floats in
\* hundredths), a string, a list of strings.
IntValue(n) == [n |-> n, hi |-> n, s |-> "", items |-> {}]
RangeValue(lo, hi) == [n |-> lo, hi |-> hi, s |-> "", items |-> {}]
StrValue(s) == [n |-> 0, hi |-> 0, s |-> s, items |-> {}]
ListValue(items) == [n |-> 0, hi |-> 0, s |-> "", items |-> items]

\* The document_chunks table: per chunk id its document_chunking_id, whether
\* it has an embedding, and its chunk_metadata.
ChunkTable ==
    [id \in {"c1", "c2", "c3", "c4", "c5"} |->
        CASE id = "c1" ->
                [collection |-> "col_1", embedding |-> TRUE,
                 metadata |-> [f \in {"year", "rating", "title", "genres"} |->
                     CASE f = "year" -> IntValue(1999)
                       [] f = "rating" -> IntValue(870)
                       [] f = "title" -> StrValue("Matrix")
                       [] f = "genres" -> ListValue({"action", "scifi"})]]
          [] id = "c2" ->
                [collection |-> "col_1", embedding |-> TRUE,
                 metadata |-> [f \in {"year", "rating", "title", "genres"} |->
                     CASE f = "year" -> IntValue(2005)
                       [] f = "rating" -> IntValue(700)
                       [] f = "title" -> StrValue("serenity")
                       [] f = "genres" -> ListValue({"scifi"})]]
          [] id = "c3" ->
                [collection |-> "col_1", embedding |-> TRUE,
                 metadata |-> [f \in {"rating", "title", "genres"} |->
                     CASE f = "rating" -> IntValue(600)
                       [] f = "title" -> StrValue("matrix")
                       [] f = "genres" -> ListValue({"drama"})]]
          [] id = "c5" ->
                [collection |-> "col_2", embedding |-> FALSE,
                 metadata |-> [f \in {"title"} |-> StrValue("serenity")]]
          [] id = "c4" ->
                [collection |-> "col_2", embedding |-> TRUE,
                 metadata |-> [f \in {"year", "rating", "title", "genres"} |->
                     CASE f = "year" -> IntValue(2005)
                       [] f = "rating" -> IntValue(990)
                       [] f = "title" -> StrValue("matrix")
                       [] f = "genres" -> ListValue({"scifi"})]]]

ChunkIds == DOMAIN ChunkTable

\* The chunks with an embedding; the distance of the others is NULL, which
\* ORDER BY distance puts last.
EmbeddedIds == {id \in ChunkIds : ChunkTable[id].embedding}

\* get_by_id, lines 34-35: the chunk with this id, of any collection.
GetById(id) == IF id \in ChunkIds THEN <<id>> ELSE <<>>

\* self.document_chunking_id of the calling agent
Collection == "col_1"

\* str.lower() / func.lower()
Lower(s) == IF s = "Matrix" THEN "matrix" ELSE IF s = "MATRIX" THEN "matrix" ELSE s

Condition(field, type, op, value) ==
    [field |-> field, type |-> type, op |-> op, value |-> value]

\* metadata_filter = None
NoFilter == [given |-> FALSE, keys |-> {}, conditions |-> <<>>]
\* {"and": [...]}
AndFilter(conditions) == [given |-> TRUE, keys |-> {"and"}, conditions |-> conditions]

\* The metadata filters of a call.
Filters ==
    {NoFilter,
     AndFilter(<<Condition("year", "int", "greater_than", IntValue(2000))>>),
     AndFilter(<<Condition("year", "int", "equals", IntValue(1800))>>),
     AndFilter(<<Condition("year", "int", "between", RangeValue(1990, 2005)),
                 Condition("genres", "list", "contains", StrValue("scifi"))>>),
     AndFilter(<<Condition("title", "str", "equals", StrValue("MATRIX"))>>),
     AndFilter(<<Condition("rating", "float", "greater_than", IntValue(950))>>),
     AndFilter(<<Condition("year", "int", "contains", IntValue(1800))>>),
     AndFilter(<<Condition("year", "date", "equals", IntValue(1800))>>)}

\* _apply_metadata_filters, lines 180-212: the filter clause one condition
\* adds to the query, evaluated on one chunk. A comparison with the NULL of
\* an absent field is not true. A condition no branch handles adds no clause.
ConditionClause(chunk, condition) ==
    LET has == condition.field \in DOMAIN chunk.metadata
        field == chunk.metadata[condition.field]
        value == condition.value
    IN  IF condition.type = "list" THEN
            IF condition.op = "contains" THEN has /\ value.s \in field.items
            ELSE IF condition.op = "in_list" THEN has /\ value.items \subseteq field.items
            ELSE TRUE
        ELSE IF condition.type = "int" THEN
            IF condition.op = "equals" THEN has /\ field.n = value.n
            ELSE IF condition.op = "greater_than" THEN has /\ field.n > value.n
            ELSE IF condition.op = "less_than" THEN has /\ field.n < value.n
            ELSE IF condition.op = "between"
                THEN has /\ value.n <= field.n /\ field.n <= value.hi
            ELSE TRUE
        ELSE IF condition.type = "str" THEN
            IF condition.op = "equals" THEN has /\ Lower(field.s) = Lower(value.s)
            ELSE TRUE
        ELSE TRUE

\* _apply_metadata_filters, lines 171-214
ApplyMetadataFilters(chunk, filter) ==
    IF ~filter.given \/ "and" \notin filter.keys THEN TRUE
    ELSE \A i \in DOMAIN filter.conditions : ConditionClause(chunk, filter.conditions[i])

\* Variant of line 147: the seed is not excluded.
AnyChunk(id, seed) == TRUE

\* DocumentChunk.id != seed_chunk.id (line 147)
NotSeed(id, seed) == id # seed

\* The rows of a query: the chunks of the collection that pass the filter,
\* in the order of the ORDER BY.
RECURSIVE FilteredRows(_, _, _)
FilteredRows(order, collection, filter) ==
    IF order = <<>> THEN <<>>
    ELSE (IF /\ ChunkTable[Head(order)].collection = collection
             /\ ApplyMetadataFilters(ChunkTable[Head(order)], filter)
          THEN <<Head(order)>> ELSE <<>>)
         \o FilteredRows(Tail(order), collection, filter)

\* .limit(top_k)
Limit(rows, top_k) == SubSeq(rows, 1, Min(top_k, Len(rows)))

\* semantic_search, lines 49-68
SemanticSearch(order, collection, top_k, filter) ==
    Limit(FilteredRows(order, collection, filter), top_k)

\* keyword_search, lines 70-95
KeywordSearch(matches, collection, top_k, filter) ==
    Limit(FilteredRows(matches, collection, filter), top_k)

RECURSIVE WithoutSeed(_, _)
WithoutSeed(rows, seed) ==
    IF rows = <<>> THEN <<>>
    ELSE (IF NotSeed(Head(rows), seed) THEN <<Head(rows)>> ELSE <<>>)
         \o WithoutSeed(Tail(rows), seed)

\* find_neighbors, lines 142-154 (after the embedding test)
FindNeighbors(seed, order, collection, top_k, filter) ==
    Limit(WithoutSeed(FilteredRows(order, collection, filter), seed), top_k)

\* get_by_metadata_filter, lines 156-169: query.first()
GetByMetadataFilter(filter, collection, order) ==
    Limit(FilteredRows(order, collection, filter), 1)

\* k = 60 (line 114)
RrfK == 60
\* semantic_weight is counted in tenths
WeightUnit == 10
\* The semantic weights of a call: 0, 0.5, 0.7, 1.
Weights == {0, 5, 7, WeightUnit}

\* Scores are fractions in lowest terms.
RECURSIVE Gcd(_, _)
Gcd(m, n) == IF n = 0 THEN m ELSE Gcd(n, m % n)
Frac(num, den) == [num |-> num \div Gcd(num, den), den |-> den \div Gcd(num, den)]
FracAdd(a, b) ==
    LET g == Gcd(a.den, b.den)
    IN  Frac(a.num * (b.den \div g) + b.num * (a.den \div g), (a.den \div g) * b.den)
FracLess(a, b) == a.num * b.den < b.num * a.den
FracEq(a, b) == a.num * b.den = b.num * a.den

\* Variant: ranks counted from 0.
RrfTermFromZero(rank, weight) == Frac(weight, WeightUnit * (RrfK + rank - 1))

\* (1 / (k + rank)) * weight (lines 120, 125)
RrfTerm(rank, weight) == Frac(weight, WeightUnit * (RrfK + rank))

\* rrf_scores[chunk_id] = rrf_scores.get(chunk_id, 0) + term: a dict keeps
\* its keys in the order of their first insertion.
AddScore(scores, id, term) ==
    IF \E i \in DOMAIN scores : scores[i].id = id
    THEN [i \in DOMAIN scores |->
            IF scores[i].id = id
            THEN [id |-> id, score |-> FracAdd(scores[i].score, term)]
            ELSE scores[i]]
    ELSE Append(scores, [id |-> id, score |-> FracAdd(Frac(0, 1), term)])

\* for rank, (chunk, _) in enumerate(results, 1): ... (lines 118-126)
RECURSIVE Accumulate(_, _, _, _)
Accumulate(scores, results, weight, rank) ==
    IF results = <<>> THEN scores
    ELSE Accumulate(AddScore(scores, Head(results), RrfTerm(rank, weight)),
                    Tail(results), weight, rank + 1)

\* Lines 115-126: the semantic list first, then the keyword list.
RrfScores(semantic_results, keyword_results, weight) ==
    Accumulate(Accumulate(<<>>, semantic_results, weight, 1),
               keyword_results, WeightUnit - weight, 1)

\* Variant: the items in the order of rrf_scores.
Unsorted(items) == items

\* sorted(items, key=score, reverse=True): a stable sort, items of equal
\* score keep their order.
RECURSIVE SortedByScore(_)
SortedByScore(items) ==
    IF items = <<>> THEN <<>>
    ELSE LET rest == SortedByScore(SubSeq(items, 1, Len(items) - 1))
             last == items[Len(items)]
             before == {i \in DOMAIN rest : ~FracLess(rest[i].score, last.score)}
             n == Cardinality(before)
         IN  SubSeq(rest, 1, n) \o <<last>> \o SubSeq(rest, n + 1, Len(rest))

\* hybrid_search, lines 97-129
HybridSearch(order, matches, collection, top_k, filter, weight) ==
    Limit(SortedByScore(RrfScores(SemanticSearch(order, collection, top_k * 2, filter),
                                  KeywordSearch(matches, collection, top_k * 2, filter),
                                  weight)),
          top_k)

RECURSIVE Ids(_)
Ids(hits) == IF hits = <<>> THEN <<>> ELSE <<Head(hits).id>> \o Ids(Tail(hits))

\* Sequences of distinct chunk ids.
Rankings(ids) ==
    {r \in UNION {[1..n -> ids] : n \in 0..Cardinality(ids)} :
        \A i, j \in DOMAIN r : i # j => r[i] # r[j]}

Returned(ids, hits) == [raised |-> FALSE, ids |-> ids, hits |-> hits]
Raised == [raised |-> TRUE, ids |-> <<>>, hits |-> <<>>]
NoResult == [raised |-> FALSE, ids |-> <<>>, hits |-> <<>>]

\* The arguments of one repository call.
InitRepository ==
    /\ ret_pc = "ready"
    /\ ret_order \in {r \o <<"c5">> : r \in {q \in Rankings(EmbeddedIds) :
                                                Len(q) = Cardinality(EmbeddedIds)}}
    /\ ret_matches \in Rankings(EmbeddedIds)
    /\ ret_filter \in Filters
    /\ ret_top_k \in 1..MaxTopK
    /\ ret_op = ""
    /\ ret_weight = 0
    /\ ret_seed = ""
    /\ ret_result = NoResult

\* No repository call is made.
IdleRepository ==
    /\ ret_pc = "idle"
    /\ ret_order = <<>>
    /\ ret_matches = <<>>
    /\ ret_filter = NoFilter
    /\ ret_top_k = 1
    /\ ret_op = ""
    /\ ret_weight = 0
    /\ ret_seed = ""
    /\ ret_result = NoResult

RepositoryRuns ==
    /\ entry = "repository" /\ ret_pc = "ready" /\ ret_pc' = "done"
    /\ UNCHANGED <<entry, orchVars, ragVars, sqlVars, resVars, gatherVars, ret_order,
                   ret_matches, ret_filter, ret_top_k>>

CallSemanticSearch ==
    /\ RepositoryRuns
    /\ ret_op' = "semantic" /\ ret_weight' = 0 /\ ret_seed' = ""
    /\ ret_result' = Returned(SemanticSearch(ret_order, Collection, ret_top_k, ret_filter),
                              <<>>)

CallKeywordSearch ==
    /\ RepositoryRuns
    /\ ret_op' = "keyword" /\ ret_weight' = 0 /\ ret_seed' = ""
    /\ ret_result' = Returned(KeywordSearch(ret_matches, Collection, ret_top_k, ret_filter),
                              <<>>)

CallHybridSearch ==
    /\ RepositoryRuns
    /\ ret_op' = "hybrid" /\ ret_seed' = ""
    /\ \E weight \in Weights :
          /\ ret_weight' = weight
          /\ LET hits == HybridSearch(ret_order, ret_matches, Collection, ret_top_k,
                                      ret_filter, weight)
             IN  ret_result' = Returned(Ids(hits), hits)

\* The neighbors mode of RAGAgent._execute_retrieve_records with a seed
\* {"id": ...} (rag_agent.py, lines 150-169): the seed is looked up by
\* get_by_id; find_neighbors raises when it has no embedding (lines 139-140).
CallFindNeighbors ==
    /\ RepositoryRuns
    /\ ret_op' = "neighbors" /\ ret_weight' = 0
    /\ \E seed \in ChunkIds :
          /\ GetById(seed) = <<seed>>
          /\ ret_seed' = seed
          /\ ret_result' =
                IF ~ChunkTable[seed].embedding THEN Raised
                ELSE Returned(FindNeighbors(seed, ret_order, Collection, ret_top_k,
                                            ret_filter), <<>>)

CallGetByMetadataFilter ==
    /\ RepositoryRuns
    /\ ret_op' = "lookup" /\ ret_weight' = 0 /\ ret_seed' = ""
    /\ ret_result' = Returned(GetByMetadataFilter(ret_filter, Collection, ret_order), <<>>)

\* =====================================================================
\* Two call_sql_agent calls of one assistant turn
\* (app/agents/orchestrator_agent.py tool_node, app/agents/text_to_sql_agent.py)
\* =====================================================================
\* asyncio.gather (line 163) runs one execute_tool coroutine per tool call;
\* both await self.sql_agent.query on the one TextToSQLAgent. A coroutine
\* runs until its next await of a model call (chain.ainvoke, line 93;
\* llm.ainvoke, line 173); the tool calls of one response are handled
\* without an await between them.
Runs == {1, 2}

\* self.sql_agent.query(query, max_sql_queries=3), orchestrator line 277.
MaxSqlQueries == 3

\* Tool calls the model of either run may emit.
GatherCallInputs ==
    {[name |-> "execute_sql_query", args |-> SqlArgs({"sql"}, SelectStatement), has_id |-> TRUE],
     [name |-> "execute_sql_query", args |-> SqlArgs({"sql"}, DeleteStatement), has_id |-> TRUE]}

\* The for loop over response.tool_calls, lines 104-160, run by `run` on
\* the instance fields as they are when the run resumes.
RECURSIVE ProcessToolCalls(_, _, _, _, _, _)
ProcessToolCalls(calls, run, allowed, executor, fields, steps) ==
    IF calls = <<>> THEN [fields |-> fields, steps |-> steps]
    ELSE LET obs == SqlExecute(Head(calls), allowed, fields.max_sql_queries, executor,
                               fields.sql_count, fields.sql_queries, fields.results)
             after == [sql_count |-> obs.sql_count,
                       sql_queries |-> obs.sql_queries,
                       results |-> obs.results,
                       max_sql_queries |-> fields.max_sql_queries,
                       appended_by |-> IF obs.sql_count > fields.sql_count
                                       THEN Append(fields.appended_by, run)
                                       ELSE fields.appended_by]
         IN  ProcessToolCalls(Tail(calls), run, allowed, executor, after,
                              Append(steps, [step_number |-> Len(steps) + 1,
                                             action |-> Head(calls).name,
                                             observation |-> obs.content]))

\* The instance fields of self.sql_agent.
InstanceFields ==
    [sql_count |-> self_sql_count, sql_queries |-> self_sql_queries,
     results |-> self_results, max_sql_queries |-> self_max_sql_queries,
     appended_by |-> appended_by]

\* Lines 179-186: the response is built from the instance fields.
GatherResponse(answer, fields, steps) ==
    [returned |-> TRUE,
     final_answer |-> IF Falsy(answer) THEN SqlNoAnswer ELSE answer,
     sql_queries |-> fields.sql_queries, results |-> fields.results,
     appended_by |-> fields.appended_by, steps |-> steps]

InitGather ==
    /\ self_sql_count = 0
    /\ self_sql_queries = <<>>
    /\ self_results = <<>>
    /\ self_max_sql_queries = Absent
    /\ appended_by = <<>>
    /\ run_pc = [r \in Runs |-> "pending"]
    /\ run_iteration = [r \in Runs |-> 0]
    /\ run_steps = [r \in Runs |-> <<>>]
    /\ run_issued = [r \in Runs |-> 0]
    /\ run_result = [r \in Runs |-> NoOutcome]

\* No tool_node is gathering two call_sql_agent calls.
IdleGather ==
    /\ self_sql_count = 0
    /\ self_sql_queries = <<>>
    /\ self_results = <<>>
    /\ self_max_sql_queries = Absent
    /\ appended_by = <<>>
    /\ run_pc = [r \in Runs |-> "idle"]
    /\ run_iteration = [r \in Runs |-> 0]
    /\ run_steps = [r \in Runs |-> <<>>]
    /\ run_issued = [r \in Runs |-> 0]
    /\ run_result = [r \in Runs |-> NoOutcome]

GatherRuns == entry = "gather" /\ UNCHANGED <<entry, orchVars, ragVars, sqlVars, resVars, retVars>>

\* gather starts the coroutines in the order of the tool calls; each runs
\* query() to its first model call: lines 58-62 reset the instance fields.
GatherStart(r) ==
    /\ GatherRuns /\ run_pc[r] = "pending"
    /\ \A u \in Runs : u < r => run_pc[u] # "pending"
    /\ self_sql_count' = 0
    /\ self_sql_queries' = <<>>
    /\ self_results' = <<>>
    /\ self_max_sql_queries' = MaxSqlQueries
    /\ appended_by' = <<>>
    /\ run_pc' = [run_pc EXCEPT ![r] = "select"]
    /\ UNCHANGED <<run_iteration, run_steps, run_issued, run_result>>

\* Lines 162-186 after the loop: the synthesis call is awaited when
\* self.sql_count > 0 and there is no answer; otherwise query() returns.
GatherLeaveLoop(r, answer, fields, steps) ==
    IF fields.sql_count > 0 /\ Falsy(answer)
    THEN /\ run_pc' = [run_pc EXCEPT ![r] = "synthesis"]
         /\ UNCHANGED run_result
    ELSE /\ run_pc' = [run_pc EXCEPT ![r] = "done"]
         /\ run_result' = [run_result EXCEPT ![r] = GatherResponse(answer, fields, steps)]

\* chain.ainvoke of run r returns a response without tool calls.
GatherSelectFinal(r) ==
    /\ GatherRuns /\ run_pc[r] = "select"
    /\ \A u \in Runs : run_pc[u] # "pending"
    /\ \E text \in LMTexts : GatherLeaveLoop(r, text, InstanceFields, run_steps[r])
    /\ run_iteration' = [run_iteration EXCEPT ![r] = @ + 1]
    /\ UNCHANGED <<self_sql_count, self_sql_queries, self_results, self_max_sql_queries,
                   appended_by, run_steps, run_issued>>

\* chain.ainvoke of run r returns tool calls; the run handles them all
\* before its next await.
GatherSelectTools(r) ==
    /\ GatherRuns /\ run_pc[r] = "select"
    /\ \A u \in Runs : run_pc[u] # "pending"
    /\ run_issued[r] < MaxToolCalls
    /\ \E calls \in SeqsUpTo(GatherCallInputs, Min(MaxCallsPerTurn, MaxToolCalls - run_issued[r])),
          executor \in ExecutorAnswers :
          LET out == ProcessToolCalls(calls, r, allowed_operations, executor,
                                      InstanceFields, run_steps[r])
          IN  /\ self_sql_count' = out.fields.sql_count
              /\ self_sql_queries' = out.fields.sql_queries
              /\ self_results' = out.fields.results
              /\ appended_by' = out.fields.appended_by
              /\ run_steps' = [run_steps EXCEPT ![r] = out.steps]
              /\ run_issued' = [run_issued EXCEPT ![r] = @ + Len(calls)]
              /\ IF SqlLoopContinues(run_iteration[r] + 1)
                 THEN run_pc' = run_pc /\ UNCHANGED run_result
                 ELSE GatherLeaveLoop(r, None, out.fields, out.steps)
    /\ run_iteration' = [run_iteration EXCEPT ![r] = @ + 1]
    /\ UNCHANGED self_max_sql_queries

\* llm.ainvoke(synthesis_prompt) of run r returns; lines 174-186.
GatherSynthesised(r) ==
    /\ GatherRuns /\ run_pc[r] = "synthesis"
    /\ \E text \in LMTexts :
          run_result' = [run_result EXCEPT ![r] =
                            GatherResponse(text, InstanceFields, run_steps[r])]
    /\ run_pc' = [run_pc EXCEPT ![r] = "done"]
    /\ UNCHANGED <<self_sql_count, self_sql_queries, self_results, self_max_sql_queries,
                   appended_by, run_iteration, run_steps, run_issued>>

\* =====================================================================
\* Specifications
\* =====================================================================
vars == <<entry, orchVars, agentVars>>

\* OrchestratorAgent.query.
Init ==
    entry = "orchestrator" /\ InitOrchestrator /\ IdleRag /\ IdleSql /\ IdleRes
    /\ IdleRepository /\ IdleGather

Next ==
    \/ SuperviseFinal
    \/ SuperviseTools
    \/ SuperviseRaises
    \/ ExecuteToolCompletes
    \/ ToolNodeJoin
    \/ FinalNode

Spec == Init /\ [][Next]_vars

\* RAGAgent.query.
InitRagAgent ==
    entry = "rag_agent" /\ IdleOrchestrator /\ InitRag /\ IdleSql /\ IdleRes
    /\ IdleRepository /\ IdleGather

NextRag ==
    \/ RagSelectFinal
    \/ RagSelectTools
    \/ RagSelectRaises
    \/ RagToolCall
    \/ RagFinish
    \/ RagSynthesisRaises

SpecRag == InitRagAgent /\ [][NextRag]_vars

\* TextToSQLAgent.query.
InitSqlAgent ==
    entry = "sql_agent" /\ IdleOrchestrator /\ IdleRag /\ InitSql /\ IdleRes
    /\ IdleRepository /\ IdleGather

NextSql ==
    \/ SqlSelectFinal
    \/ SqlSelectTools
    \/ SqlSelectRaises
    \/ SqlToolCall
    \/ SqlFinish
    \/ SqlSynthesisRaises

SpecSql == InitSqlAgent /\ [][NextSql]_vars

\* ResearchAgent.query.
InitResearchAgent ==
    entry = "research_agent" /\ IdleOrchestrator /\ IdleRag /\ IdleSql /\ InitRes
    /\ IdleRepository /\ IdleGather

NextRes ==
    \/ ResSelectFinal
    \/ ResSelectTools
    \/ ResSelectRaises
    \/ ResToolCall
    \/ ResFinish
    \/ ResSynthesisRaises

SpecRes == InitResearchAgent /\ [][NextRes]_vars

\* Any one of the four query() methods.
InitLoops ==
    \/ Init
    \/ InitRagAgent
    \/ InitSqlAgent
    \/ InitResearchAgent

NextLoops ==
    \/ Next
    \/ NextRag
    \/ NextSql
    \/ NextRes

SpecLoops == InitLoops /\ [][NextLoops]_vars

\* One call of a DocumentChunkRepository search method.
InitRepositoryCall ==
    entry = "repository" /\ IdleOrchestrator /\ IdleRag /\ IdleSql /\ IdleRes
    /\ IdleGather /\ InitRepository

NextRepository ==
    \/ CallSemanticSearch
    \/ CallKeywordSearch
    \/ CallHybridSearch
    \/ CallFindNeighbors
    \/ CallGetByMetadataFilter

SpecRepository == InitRepositoryCall /\ [][NextRepository]_vars

\* One tool_node gathering two call_sql_agent calls.
InitGathered ==
    entry = "gather" /\ IdleOrchestrator /\ IdleRag /\ IdleSql /\ IdleRes
    /\ IdleRepository /\ InitGather

NextGather ==
    \/ \E r \in Runs : GatherStart(r)
    \/ \E r \in Runs : GatherSelectFinal(r)
    \/ \E r \in Runs : GatherSelectTools(r)
    \/ \E r \in Runs : GatherSynthesised(r)

SpecGather == InitGathered /\ [][NextGather]_vars

\* =====================================================================
\* Properties
\* =====================================================================
\* The last tool step of the orchestrator has been joined: the conversation
\* ends with the tool messages of the last assistant turn.
ToolsJoined == entry = "orchestrator" /\ pc = "supervise" /\ tasks # <<>>

\* Position of the assistant message of the last joined tool step.
LastTurn == Len(messages) - Len(tasks)

\* Some assistant turn requested two or more tool calls.
ParallelTurn == \E i \in DOMAIN messages : Len(messages[i].tool_calls) >= 2

RECURSIVE RequestedCalls(_)
RequestedCalls(msgs) ==
    IF msgs = <<>> THEN 0
    ELSE Len(Head(msgs).tool_calls) + RequestedCalls(Tail(msgs))

\* C1: the Supervise/Tools loop performs at most max_iterations Supervise
\* steps (and is then forced to Final with a fallback answer).
C1_SuperviseStepsCapped ==
    entry = "orchestrator" => supervise_steps <= max_iterations

\* C2: after a Tools step for an assistant turn with calls c1..cn, the
\* conversation ends with exactly n tool messages, the k-th being the message
\* of call ck's own result and carrying ck's id, whatever the order in which
\* the n executions completed.
C2_ToolMessagesInCallOrder ==
    ToolsJoined =>
        /\ LastTurn >= 1
        /\ messages[LastTurn].role = "assistant"
        /\ Len(messages[LastTurn].tool_calls) = Len(tasks)
        /\ \A k \in 1..Len(tasks) :
              LET call == messages[LastTurn].tool_calls[k]
                  msg == messages[LastTurn + k]
              IN  /\ msg.role = "tool"
                  /\ call.id # Absent => msg.tool_call_id = call.id
                  /\ msg = ResultMessage(tasks[k].result)
                  /\ tasks[k].result =
                        ExecuteTool(call, rag_configured, "returns")
                     \/ tasks[k].result =
                        ExecuteTool(call, rag_configured, "raises")

\* C2: a turn of two calls whose second execution completed first is joined.
C2_Witness ==
    ToolsJoined /\ completion_order = <<2, 1>>
    /\ messages[LastTurn].tool_calls[1].id # Absent
    /\ messages[LastTurn].tool_calls[2].id # Absent

\* The ids the assistant message carries on its tool calls.
EmittedIds(msg) == {msg.tool_calls[k].id : k \in 1..Len(msg.tool_calls)} \ {Absent}

\* The nearest assistant message before position j, 0 if there is none.
RECURSIVE LastAssistantUpTo(_, _)
LastAssistantUpTo(msgs, i) ==
    IF i = 0 THEN 0
    ELSE IF msgs[i].role = "assistant" THEN i
    ELSE LastAssistantUpTo(msgs, i - 1)
NearestAssistant(msgs, j) == LastAssistantUpTo(msgs, j - 1)

\* Every tool message carries an id emitted by the nearest preceding
\* assistant message.
IdsEmitted(msgs) ==
    \A j \in DOMAIN msgs :
        msgs[j].role = "tool" =>
            /\ NearestAssistant(msgs, j) > 0
            /\ msgs[j].tool_call_id \in EmittedIds(msgs[NearestAssistant(msgs, j)])

\* C3 as stated: in every conversation every tool message carries a
\* tool_call_id emitted by the nearest preceding assistant message, also for
\* a call emitted without an id.
C3_IdsEmittedByAssistant ==
    /\ IdsEmitted(messages)
    /\ IdsEmitted(rag_messages)
    /\ IdsEmitted(sql_messages)
    /\ IdsEmitted(res_messages)

\* The k-th message after an assistant message answers its k-th call: it is
\* a tool message with that call's id, or "unknown" if the call has no id.
AnswersInOrder(msgs) ==
    \A j \in DOMAIN msgs :
        msgs[j].role = "tool" =>
            LET i == NearestAssistant(msgs, j)
            IN  /\ i > 0
                /\ j - i <= Len(msgs[i].tool_calls)
                /\ msgs[j].tool_call_id =
                      (IF msgs[i].tool_calls[j - i].id = Absent
                       THEN "unknown" ELSE msgs[i].tool_calls[j - i].id)

\* Every call of every assistant message has its tool message.
TurnsComplete(msgs) ==
    \A i \in DOMAIN msgs :
        \A k \in 1..Len(msgs[i].tool_calls) :
            i + k <= Len(msgs) /\ msgs[i + k].role = "tool"

\* C3, amended: in every conversation the tool messages after an assistant
\* message answer its tool calls in order, each with the id of its call or
\* the literal "unknown" when the call was emitted without an id; whenever
\* the conversation is handed to the language model again or the loop has
\* ended, every call has exactly one tool message, also when the call failed,
\* named an unknown tool or hit a limit.
C3_ToolMessagesAnswerCalls ==
    /\ AnswersInOrder(messages)
    /\ AnswersInOrder(rag_messages)
    /\ AnswersInOrder(sql_messages)
    /\ AnswersInOrder(res_messages)
    /\ pc \in {"supervise", "final", "done"} => TurnsComplete(messages)
    /\ rag_pc \in {"select", "finish", "done"} => TurnsComplete(rag_messages)
    /\ sql_pc \in {"select", "finish", "done"} => TurnsComplete(sql_messages)
    /\ res_pc \in {"select", "finish", "done"} => TurnsComplete(res_messages)

\* C3: a SQL turn whose calls failed and carried no id has been answered.
C3_Witness ==
    /\ sql_pc = "select"
    /\ \E j \in DOMAIN sql_messages :
          /\ sql_messages[j].role = "tool"
          /\ sql_messages[j].tool_call_id = "unknown"
    /\ \E j \in DOMAIN sql_messages :
          /\ sql_messages[j].role = "tool"
          /\ sql_messages[j].content.json = "error"

\* C4: if some assistant turn requested two or more tool calls, the outcome's
\* mode_used is "parallel", whatever the results of the calls.
C4_ParallelTurnIsParallel ==
    (entry = "orchestrator" /\ outcome.returned /\ ParallelTurn)
        => outcome.mode_used = "parallel"

\* C5: if no assistant turn requested more than one tool call, mode_used is
\* "none" with no call requested, "single" with exactly one, "sequential"
\* with two or more, whatever the results of the calls.
C5_ModeCountsRequestedCalls ==
    (entry = "orchestrator" /\ outcome.returned /\ ~ParallelTurn)
        => outcome.mode_used =
              (IF RequestedCalls(messages) = 0 THEN "none"
               ELSE IF RequestedCalls(messages) = 1 THEN "single"
               ELSE "sequential")

\* The k-th call of the joined step raised: in execute_tool itself, or in
\* the capability agent it awaited.
CallRaised(k) ==
    \/ tasks[k].result.error # None
    \/ "error" \in tasks[k].result.result.specific_data

\* C6: when one of several concurrent tool calls of a turn raises, its tool
\* message carries a structured error payload, every call of the turn has
\* its own message, and the orchestrator is back in Supervise.
C6_RaisingCallGivesErrorPayload ==
    (ToolsJoined /\ Len(tasks) >= 2) =>
        \A k \in 1..Len(tasks) :
            /\ messages[LastTurn + k].role = "tool"
            /\ CallRaised(k) => messages[LastTurn + k].content.json = "error"

\* C7: whatever collaborator fails, query() returns an outcome: no exception
\* leaves it.
C7_NoExceptionPropagates ==
    entry = "orchestrator" => pc # "raised"

\* C8: in each capability agent loop, a response without tool calls ends the
\* loop and its text is the final_answer returned.
C8_TextOfToolLessResponseReturned ==
    /\ (rag_result.returned /\ rag_response.tool_calls = <<>>)
          => rag_result.final_answer = rag_response.content
    /\ (sql_result.returned /\ sql_response.tool_calls = <<>>)
          => sql_result.final_answer = sql_response.content
    /\ (res_result.returned /\ res_response.tool_calls = <<>>)
          => res_result.final_answer = res_response.content

\* Some retrieval call of this run returned at least one record.
RecordsReturned ==
    \E j \in DOMAIN rag_messages :
        /\ rag_messages[j].role = "tool"
        /\ rag_messages[j].content.json \in {"results", "record"}
        /\ rag_messages[j].content.count > 0

\* C9: once a retrieval call has returned a record, the retrieval agent makes
\* no further tool-selection call and answers by synthesis, also when later
\* calls of the same turn return nothing or fail.
C9_NoSelectionAfterRecords ==
    /\ (RecordsReturned /\ rag_pc # "tools") => rag_pc # "select"
    /\ (RecordsReturned /\ rag_result.returned) => rag_synthesis_calls = 1

\* C10: if every model response requested tools and no call ever returned a
\* record, the retrieval agent returns after exactly 3 tool-selection calls
\* and no synthesis call, with the literal "No relevant records found"
\* answer.
C10_ThreeAttemptsThenLiteral ==
    (rag_result.returned /\ rag_response.tool_calls # <<>> /\ ~RecordsReturned) =>
        /\ rag_select_calls = 3
        /\ rag_synthesis_calls = 0
        /\ rag_result.final_answer = RagNoAnswer

\* C10: a run of failed attempts, the last one an index failure, has returned.
C10_Witness ==
    /\ rag_result.returned
    /\ rag_response.tool_calls # <<>>
    /\ ~RecordsReturned
    /\ rag_select_calls = 3
    /\ rag_messages[Len(rag_messages)].content.value = "exception"

\* The tool call that the tool message at position j answers.
CallAnswered(msgs, j) ==
    LET i == NearestAssistant(msgs, j) IN msgs[i].tool_calls[j - i]

\* An execute_sql_query call with a statement.
ExecutesStatement(call) == call.name = "execute_sql_query" /\ "sql" \in call.args.keys

\* Its statement's detected operation is not in the allow-list.
DisallowedCall(call) ==
    /\ ExecutesStatement(call)
    /\ DetectOperation(call.args.sql) \notin allowed_operations

\* C11: a statement whose detected operation is not in allowed_operations is
\* never passed to the executor; its tool call is answered by the "operation
\* not allowed" error observation, it does not make query() raise, and after
\* its turn the loop goes on to the next model call while iterations remain.
C11_DisallowedOperationRejected ==
    /\ \A i \in DOMAIN executor_calls :
          DetectOperation(executor_calls[i]) \in allowed_operations
    /\ \A j \in DOMAIN sql_messages :
          (sql_messages[j].role = "tool" /\ DisallowedCall(CallAnswered(sql_messages, j)))
             => sql_messages[j].content = JsonError("operation not allowed")
    /\ (sql_pc = "raised" /\ sql_tool_index > 0)
          => ~DisallowedCall(sql_response.tool_calls[sql_tool_index])
    /\ ( /\ sql_pc \notin {"tools", "raised"}
         /\ \E k \in DOMAIN sql_response.tool_calls :
               DisallowedCall(sql_response.tool_calls[k])
         /\ sql_iteration < SqlMaxIterations )
          => sql_pc = "select"

\* C11: a DELETE under the allow-list {"SELECT"} has been answered and the
\* loop is at its next model call.
C11_Witness ==
    /\ sql_pc = "select"
    /\ allowed_operations = {"SELECT"}
    /\ sql_messages[Len(sql_messages)].role = "tool"
    /\ CallAnswered(sql_messages, Len(sql_messages)).args.sql = DeleteStatement
    /\ sql_messages[Len(sql_messages)].content = JsonError("operation not allowed")

\* C12: within one request the executor is invoked at most max_sql_queries
\* times, whether the executions succeed or fail.
C12_ExecutorCallsBounded ==
    entry = "sql_agent" => Len(executor_calls) <= max_sql_queries

\* The statement holds a blocked keyword, a second statement or a comment.
Unsafe(sql) == sql.blocked \/ sql.multiple \/ sql.comment

\* C13: whatever the allow-list, a statement with a blocked keyword, a
\* comment marker or more than one statement is never run on the database,
\* and its tool call is answered by an error observation without raising.
C13_UnsafeStatementNeverRun ==
    /\ \A i \in DOMAIN db_statements : ~Unsafe(db_statements[i])
    /\ \A j \in DOMAIN sql_messages :
          sql_messages[j].role = "tool" =>
             LET call == CallAnswered(sql_messages, j)
             IN  (ExecutesStatement(call) /\ Unsafe(call.args.sql))
                    => sql_messages[j].content.json = "error"
    /\ (sql_pc = "raised" /\ sql_tool_index > 0)
          => ~( /\ ExecutesStatement(sql_response.tool_calls[sql_tool_index])
                /\ Unsafe(sql_response.tool_calls[sql_tool_index].args.sql) )

\* C13: a SELECT holding a blocked keyword and a SELECT with a comment passed
\* the allow-list, were handed to execute_query and answered with errors.
C13_Witness ==
    /\ sql_pc = "select"
    /\ \E i \in DOMAIN executor_calls : executor_calls[i] = SelectWithKeyword
    /\ \E i \in DOMAIN executor_calls : executor_calls[i] = SelectWithComment
    /\ db_statements = <<>>
    /\ sql_messages[Len(sql_messages)].content = JsonError("exception")

\* C14: with max_searches = 3 the research agent issues exactly 3 search
\* calls that are all in flight before any of them ends, and the searches
\* contribute their results as references.
C14_SearchesConcurrent ==
    (res_result.returned /\ max_searches = 3 /\ search_count = 3) =>
        /\ Len(search_events) = 6
        /\ SubSeq(search_events, 1, 3) = <<"issued", "issued", "issued">>
        /\ all_references # <<>>

\* C15: if no reference was gathered during a run, the research agent
\* returns the fixed answer and makes no synthesis model call.
C15_NoReferencesNoSynthesis ==
    (res_result.returned /\ all_references = <<>>) =>
        /\ res_synthesis_calls = 0
        /\ res_result.final_answer = ResNoAnswer


\* ---------------------------------------------------------------------
\* DocumentChunkRepository
\* ---------------------------------------------------------------------
RepositoryDone(op) == entry = "repository" /\ ret_pc = "done" /\ ret_op = op

\* The two candidate lists of the hybrid call.
SemanticList == SemanticSearch(ret_order, Collection, 2 * ret_top_k, ret_filter)
KeywordList == KeywordSearch(ret_matches, Collection, 2 * ret_top_k, ret_filter)

Elements(list) == {list[i] : i \in DOMAIN list}
Candidates == Elements(SemanticList) \cup Elements(KeywordList)

\* The 1-indexed rank of a record in a list, 0 when it is absent.
RankIn(list, id) ==
    IF id \in Elements(list) THEN CHOOSE i \in DOMAIN list : list[i] = id ELSE 0

\* w/(60 + r_s) + (1 - w)/(60 + r_k), a term being 0 for an absent record.
FusedScore(id) ==
    LET rs == RankIn(SemanticList, id)
        rk == RankIn(KeywordList, id)
    IN  FracAdd(IF rs = 0 THEN Frac(0, 1) ELSE Frac(ret_weight, WeightUnit * (60 + rs)),
                IF rk = 0 THEN Frac(0, 1)
                ELSE Frac(WeightUnit - ret_weight, WeightUnit * (60 + rk)))

HybridKeywordFirst ==
    Limit(SortedByScore(Accumulate(Accumulate(<<>>, KeywordList,
                                              WeightUnit - ret_weight, 1),
                                   SemanticList, ret_weight, 1)),
          ret_top_k)

\* No two candidates have the same fused score.
NoTies ==
    \A a, b \in Candidates : a # b => ~FracEq(FusedScore(a), FusedScore(b))

\* The candidates in the order of their first insertion into rrf_scores.
FirstSeen == Ids(RrfScores(SemanticList, KeywordList, ret_weight))

\* C17 as stated: the output of hybrid_search is the same whichever list is
\* processed first, equal fused scores included.
C17_OrderIndependent ==
    RepositoryDone("hybrid") => ret_result.hits = HybridKeywordFirst

\* C17: the output of hybrid_search is the same whichever list is processed
\* first when no two candidates have equal fused scores; records of equal
\* fused score come out in the order of their first insertion, the semantic
\* list being processed first.
C17_OrderIndependentWithoutTies ==
    RepositoryDone("hybrid") =>
        /\ NoTies => ret_result.hits = HybridKeywordFirst
        /\ \A i, j \in DOMAIN ret_result.hits :
              (i < j /\ FracEq(ret_result.hits[i].score, ret_result.hits[j].score))
                  => RankIn(FirstSeen, ret_result.hits[i].id)
                        < RankIn(FirstSeen, ret_result.hits[j].id)

\* A hybrid call without ties whose output has two records, the first of
\* them ranked first by the keyword list and not by the semantic list.
C17_Witness ==
    /\ RepositoryDone("hybrid")
    /\ NoTies
    /\ Len(ret_result.hits) = 2
    /\ RankIn(SemanticList, ret_result.hits[1].id) > 1
    /\ RankIn(KeywordList, ret_result.hits[1].id) = 1
    /\ ret_result.hits = HybridKeywordFirst


\* The operators a condition of a type may carry.
LegalOperators(type) ==
    IF type = "list" THEN {"contains", "in_list"}
    ELSE IF type \in {"int", "float"} THEN {"equals", "greater_than", "less_than", "between"}
    ELSE IF type \in {"str", "bool"} THEN {"equals"}
    ELSE {}

WellFormed(filter) ==
    \A i \in DOMAIN filter.conditions :
        filter.conditions[i].op \in LegalOperators(filter.conditions[i].type)

\* A chunk satisfies a well-formed condition.
Satisfies(chunk, condition) ==
    /\ condition.field \in DOMAIN chunk.metadata
    /\ LET field == chunk.metadata[condition.field]
           value == condition.value
       IN  IF condition.type = "list" THEN
               IF condition.op = "contains" THEN value.s \in field.items
               ELSE value.items \subseteq field.items
           ELSE IF condition.type \in {"int", "float"} THEN
               IF condition.op = "equals" THEN field.n = value.n
               ELSE IF condition.op = "greater_than" THEN field.n > value.n
               ELSE IF condition.op = "less_than" THEN field.n < value.n
               ELSE value.n <= field.n /\ field.n <= value.hi
           ELSE IF condition.type = "str" THEN Lower(field.s) = Lower(value.s)
           ELSE field.n = value.n

\* The chunks of the collection that satisfy the filter of the call.
Matching ==
    {id \in ChunkIds :
        /\ ChunkTable[id].collection = Collection
        /\ \A i \in DOMAIN ret_filter.conditions :
              Satisfies(ChunkTable[id], ret_filter.conditions[i])}

RECURSIVE Restrict(_, _)
Restrict(order, ids) ==
    IF order = <<>> THEN <<>>
    ELSE (IF Head(order) \in ids THEN <<Head(order)>> ELSE <<>>)
         \o Restrict(Tail(order), ids)

C19_SeedNeverReturned ==
    RepositoryDone("neighbors") => ret_seed \notin Elements(ret_result.ids)

\* find_neighbors returned records although the seed is among the first
\* top_k records of the collection that pass the filter.
C19_Witness ==
    /\ RepositoryDone("neighbors")
    /\ ~ret_result.raised
    /\ ret_result.ids # <<>>
    /\ ret_seed \in Elements(SemanticSearch(ret_order, Collection, ret_top_k, ret_filter))

C21_ConditionsEvaluated ==
    (entry = "repository" /\ ret_pc = "done" /\ WellFormed(ret_filter)) =>
        \A id \in ChunkIds :
            ApplyMetadataFilters(ChunkTable[id], ret_filter)
                <=> \A i \in DOMAIN ret_filter.conditions :
                        Satisfies(ChunkTable[id], ret_filter.conditions[i])


\* ---------------------------------------------------------------------
\* Tool vocabularies
\* ---------------------------------------------------------------------
RagTools == {"retrieve_records", "get_record"}
SqlTools == {"execute_sql_query", "sql_db_query_checker"}
ResTools == {"web_search"}

\* Every tool message that answers a call named outside the vocabulary
\* carries the "Unknown tool" error.
UnknownAnswered(msgs, vocabulary) ==
    \A j \in DOMAIN msgs :
        msgs[j].role = "tool" =>
            (CallAnswered(msgs, j).name \notin vocabulary
                => msgs[j].content = JsonError("Unknown tool"))

\* The tool-calling turns of a conversation.
AssistantTurns(msgs) == Cardinality({j \in DOMAIN msgs : msgs[j].role = "assistant"})

\* The last assistant turn is answered in full and held a call named outside
\* the vocabulary.
UnknownTurnAnswered(msgs, vocabulary) ==
    /\ msgs[Len(msgs)].role = "tool"
    /\ LET turn == msgs[NearestAssistant(msgs, Len(msgs) + 1)]
       IN  /\ Len(msgs) - NearestAssistant(msgs, Len(msgs) + 1) = Len(turn.tool_calls)
           /\ \E k \in DOMAIN turn.tool_calls : turn.tool_calls[k].name \notin vocabulary

\* C22: in the Orchestrator and in each capability agent loop a tool call
\* named outside the loop's vocabulary is answered by a tool message with the
\* "Unknown tool" error, raises nothing, and after its turn, before any
\* further model call, the loop is at its next model call (in an agent loop:
\* while iterations remain and, for the Retrieval agent, the turn retrieved
\* no record).
C22_UnknownToolAnswered ==
    /\ UnknownAnswered(messages, OrchestratorTools)
    /\ UnknownAnswered(rag_messages, RagTools)
    /\ UnknownAnswered(sql_messages, SqlTools)
    /\ UnknownAnswered(res_messages, ResTools)
    /\ (rag_pc = "raised" /\ rag_tool_index > 0)
          => rag_response.tool_calls[rag_tool_index].name \in RagTools
    /\ (sql_pc = "raised" /\ sql_tool_index > 0)
          => sql_response.tool_calls[sql_tool_index].name \in SqlTools
    /\ (res_pc = "raised" /\ res_tool_index > 0)
          => res_response.tool_calls[res_tool_index].name \in ResTools
    /\ (entry = "orchestrator" /\ UnknownTurnAnswered(messages, OrchestratorTools))
          => pc \in {"supervise", "raised"}
    /\ (/\ entry = "rag_agent" /\ UnknownTurnAnswered(rag_messages, RagTools)
        /\ rag_iteration = AssistantTurns(rag_messages)
        /\ rag_iteration < RagMaxIterations /\ retrieved_chunks = <<>>)
          => rag_pc \in {"select", "raised"}
    /\ (/\ entry = "sql_agent" /\ UnknownTurnAnswered(sql_messages, SqlTools)
        /\ sql_iteration = AssistantTurns(sql_messages)
        /\ sql_iteration < SqlMaxIterations)
          => sql_pc \in {"select", "raised"}
    /\ (/\ entry = "research_agent" /\ UnknownTurnAnswered(res_messages, ResTools)
        /\ res_iteration = AssistantTurns(res_messages)
        /\ res_iteration < ResMaxIterations)
          => res_pc \in {"select", "raised"}

\* C22: the Orchestrator is at its next model call after a turn whose only
\* call named a tool outside the vocabulary.
C22_Witness ==
    /\ entry = "orchestrator" /\ pc = "supervise"
    /\ UnknownTurnAnswered(messages, OrchestratorTools)
    /\ messages[Len(messages)].content = JsonError("Unknown tool")


\* ---------------------------------------------------------------------
\* Orchestrator outcome
\* ---------------------------------------------------------------------
\* A call_rag_agent call that carries its query.
RagCall(call) == call.name = "call_rag_agent" /\ "query" \in call.args

\* C23: without a Retrieval agent a call_rag_agent call returns the fixed
\* "not configured" summary with an empty step trail, and the capability's
\* query() is never awaited, so no language-model or index call is made for it.
C23_RagNotConfigured ==
    (entry = "orchestrator" /\ ~rag_configured) =>
        /\ \A i \in DOMAIN agent_awaits : agent_awaits[i] # "call_rag_agent"
        /\ \A j \in DOMAIN messages :
              (messages[j].role = "tool" /\ RagCall(CallAnswered(messages, j)))
                 => messages[j].content = JsonString("No RAG data source available")
        /\ (pc = "tools") =>
              \A i \in DOMAIN tasks :
                 (tasks[i].status = "done" /\ RagCall(LastToolCalls[i])) =>
                    /\ tasks[i].result.error = None
                    /\ tasks[i].result.result.steps = "no_steps"
                    /\ tasks[i].result.result.specific_data = {}
        /\ "rag_agent" \in DOMAIN agent_responses =>
              /\ agent_responses["rag_agent"].steps = "no_steps"
              /\ agent_responses["rag_agent"].specific_data = {}

\* C23: an outcome was returned after a call_rag_agent call without a
\* Retrieval agent.
C23_Witness ==
    /\ entry = "orchestrator" /\ ~rag_configured
    /\ outcome.returned
    /\ "rag_agent" \in DOMAIN outcome.agent_details
    /\ outcome.agent_details["rag_agent"].result_summary = "No RAG data source available"


CapabilityNames == {"sql_agent", "rag_agent", "research_agent", "datetime_tool"}

\* C26: every name in the outcome's agents_called and agent_details is one
\* of sql_agent, rag_agent, research_agent, datetime_tool; a tool call with
\* an unknown name adds no entry and has no effect on mode_used.
C26_OnlyCapabilitiesRecorded ==
    (entry = "orchestrator" /\ outcome.returned) =>
        /\ \A i \in DOMAIN outcome.agents_called :
              outcome.agents_called[i] \in CapabilityNames
        /\ DOMAIN outcome.agent_details \subseteq CapabilityNames


\* The name under which a tool call is recorded.
RecordedName(call) ==
    IF call.name = "call_sql_agent" THEN "sql_agent"
    ELSE IF call.name = "call_rag_agent" THEN "rag_agent"
    ELSE IF call.name = "call_research_agent" THEN "research_agent"
    ELSE IF call.name = "get_current_datetime" THEN "datetime_tool"
    ELSE call.name

\* The tool messages of recorded invocations: those that do not carry the
\* error of a call that raised.
Recorded(msgs) ==
    {j \in DOMAIN msgs :
        msgs[j].role = "tool" /\ msgs[j].content # JsonError("Error executing tool")}

\* The names of the recorded invocations among the first n messages, in
\* request order.
RECURSIVE InvocationsUpTo(_, _)
InvocationsUpTo(msgs, n) ==
    IF n = 0 THEN <<>>
    ELSE InvocationsUpTo(msgs, n - 1)
         \o (IF n \in Recorded(msgs) THEN <<RecordedName(CallAnswered(msgs, n))>> ELSE <<>>)

\* The last recorded invocation under a name.
LastInvocation(msgs, name) ==
    CHOOSE j \in Recorded(msgs) :
        /\ RecordedName(CallAnswered(msgs, j)) = name
        /\ \A m \in Recorded(msgs) :
              RecordedName(CallAnswered(msgs, m)) = name => m <= j

\* C27: in every outcome the keys of agent_details are the names in
\* agents_called, agents_called lists the recorded invocations in request
\* order across turns, once per invocation, and agent_details holds for each
\* name the result of its last invocation in request order.
C27_DetailsMatchCalled ==
    (entry = "orchestrator" /\ outcome.returned) =>
        /\ DOMAIN outcome.agent_details = Elements(outcome.agents_called)
        /\ outcome.agents_called = InvocationsUpTo(messages, Len(messages))
        /\ \A name \in DOMAIN outcome.agent_details :
              /\ outcome.agent_details[name].agent_name = name
              /\ name \in CapabilityNames =>
                    JsonString(outcome.agent_details[name].result_summary)
                        = messages[LastInvocation(messages, name)].content

\* C27: the SQL capability was invoked twice with different results and the
\* outcome holds the second one.
C27_Witness ==
    /\ entry = "orchestrator" /\ outcome.returned
    /\ outcome.agents_called = <<"sql_agent", "sql_agent">>
    /\ outcome.agent_details["sql_agent"].result_summary = "SQL Agent error"
    /\ \E j \in Recorded(messages) : messages[j].content = JsonString("sql_final_answer")


\* ---------------------------------------------------------------------
\* Termination of the capability agents
\* ---------------------------------------------------------------------
\* The loop ended at its iteration ceiling: every model response up to the
\* ceiling requested tools, and all of them are answered.
AtCeiling(msgs, ceiling, tool_index, position) ==
    /\ AssistantTurns(msgs) = ceiling
    /\ msgs[Len(msgs)].role = "tool"
    /\ tool_index = 0
    /\ position \in {"finish", "done", "raised"}

\* C25: each capability agent makes at most its ceiling of tool-selection
\* model calls (SQL 5, Retrieval 3, Research 10) and at most one synthesis
\* call; once the ceiling is reached it makes no further selection call, it
\* raises only if the synthesis call itself fails, and the result it returns
\* without a synthesis call carries the literal fallback string (the SQL and
\* Research agents also replace an empty synthesised text by it).
C25_RunsBounded ==
    /\ sql_select_calls <= SqlMaxIterations
    /\ rag_select_calls <= RagMaxIterations
    /\ res_select_calls <= ResMaxIterations
    /\ sql_synthesis_calls <= 1 /\ rag_synthesis_calls <= 1 /\ res_synthesis_calls <= 1
    /\ sql_pc = "select" => sql_select_calls < SqlMaxIterations
    /\ rag_pc = "select" => rag_select_calls < RagMaxIterations
    /\ res_pc = "select" => res_select_calls < ResMaxIterations
    /\ AtCeiling(sql_messages, SqlMaxIterations, sql_tool_index, sql_pc) =>
          /\ sql_pc = "raised" => sql_synthesis_calls = 1
          /\ sql_result.returned =>
                /\ ~Falsy(sql_result.final_answer)
                /\ sql_synthesis_calls = 0 => sql_result.final_answer = SqlNoAnswer
    /\ AtCeiling(rag_messages, RagMaxIterations, rag_tool_index, rag_pc) =>
          /\ rag_pc = "raised" => rag_synthesis_calls = 1
          /\ rag_result.returned =>
                (rag_synthesis_calls = 0 => rag_result.final_answer = RagNoAnswer)
    /\ AtCeiling(res_messages, ResMaxIterations, res_tool_index, res_pc) =>
          /\ res_pc = "raised" => res_synthesis_calls = 1
          /\ res_result.returned =>
                /\ ~Falsy(res_result.final_answer)
                /\ res_synthesis_calls = 0 => res_result.final_answer = ResNoAnswer

\* C25: the SQL agent returned the fallback string after 5 selection calls
\* that all requested tools.
C25_Witness ==
    /\ sql_result.returned
    /\ AtCeiling(sql_messages, SqlMaxIterations, sql_tool_index, sql_pc)
    /\ sql_synthesis_calls = 0
    /\ sql_result.final_answer = SqlNoAnswer


\* ---------------------------------------------------------------------
\* Retrieval agent response
\* ---------------------------------------------------------------------
\* The tool messages of the calls that stored their records in
\* retrieved_chunks.
Producing(msgs) ==
    {j \in DOMAIN msgs : msgs[j].role = "tool" /\ msgs[j].content.json \in {"results", "record"}}

\* The call that produced the chunks the agent returns: the last of them.
ProducingCall(msgs) ==
    CallAnswered(msgs, CHOOSE j \in Producing(msgs) : \A m \in Producing(msgs) : m <= j)

\* C28: the mode_used and filters_applied the Retrieval agent returns are
\* those of the tool call that produced the returned chunks; a later call
\* that errors does not change them, and after a get_record lookup
\* filters_applied is what a lone lookup leaves, not the value of an earlier
\* retrieve_records call.
C28_ModeOfProducingCall ==
    (entry = "rag_agent" /\ rag_result.returned /\ rag_result.chunks # <<>>) =>
        LET call == ProducingCall(rag_messages)
        IN  IF call.name = "get_record"
            THEN /\ rag_result.mode_used = "direct_lookup"
                 /\ rag_result.filters_applied = FALSE
            ELSE /\ rag_result.mode_used = call.args.mode
                 /\ rag_result.filters_applied = call.args.metadata_filter


\* C29: every record a retrieval operation reads or returns belongs to the
\* agent's collection; a neighbors seed given by id is resolved within the
\* collection, so no record of another collection serves as the seed vector.
C29_CollectionScoped ==
    (entry = "repository" /\ ret_pc = "done") =>
        /\ \A i \in DOMAIN ret_result.ids :
              ChunkTable[ret_result.ids[i]].collection = Collection
        /\ (ret_op = "neighbors" /\ ~ret_result.raised /\ ret_result.ids # <<>>)
              => ChunkTable[ret_seed].collection = Collection


ExecutedBefore(r, i) ==
    Cardinality({j \in 1..(i - 1) : run_steps[r][j].observation.json = "results"})

\* C24: two runs of the same capability in one turn do not interfere: the
\* statements a run returns are the ones it executed itself, and a run is
\* refused for the query limit only after its own MaxSqlQueries statements.
C24_RunsDoNotInterfere ==
    (entry = "gather") =>
        \A r \in Runs :
            /\ run_result[r].returned =>
                  \A i \in DOMAIN run_result[r].appended_by :
                      run_result[r].appended_by[i] = r
            /\ \A i \in DOMAIN run_steps[r] :
                  run_steps[r][i].observation = JsonError("Maximum SQL query limit reached")
                      => ExecutedBefore(r, i) >= MaxSqlQueries

====
